---------------------------- MODULE Spec2Model ----------------------------
(***************************************************************************)
(* State-machine model of the tokenization services of this repository:    *)
(*   - action/token_logic.py            the token codec (pure functions)   *)
(*   - services/actions-tokenize        PostgresExecutor and TokenizeAction*)
(*   - action/run_manager.py, db_pg.py, db_dbx.py   the polling RunManager *)
(* The two services are separate deployables; a behaviour of Spec runs one *)
(* of them (variable service), so their state spaces add up, not multiply. *)
(* A text value is a sequence of one-character strings; NULL / None is the *)
(* one-element sequence None, which no text equals.                         *)
(***************************************************************************)
EXTENDS Integers, Sequences, FiniteSets, TLC

\* ------------------------------------------------------------------ bounds
\* Longest plaintext the codec specification feeds to token_logic.
MaxStrLen == 2
\* Operations applied in a row to one value in the codec specification.
MaxCodecOps == 3
\* Rows of the target table.
NRows == 2
\* Longest column list handed to one tokenization.
MaxCols == 2
\* Calls (direct tokenize calls, trigger events or polls) in one behaviour.
MaxCalls == 2
\* Events or polls one coordinator handles in one behaviour of Spec.
MaxRuns == 1
\* Environment failures (a refused connection, a failing statement, a failing
\* catalog write) in one behaviour.
MaxFaults == 1
\* Rules in the rules file of the pii-classifier.
MaxRules == 2
\* Values one column sample returns (sample_limit).
MaxSamples == 2

\* ------------------------------------------------------------------ text
None == << "None" >>

Upper == << "A","B","C","D","E","F","G","H","I","J","K","L","M",
            "N","O","P","Q","R","S","T","U","V","W","X","Y","Z" >>
Lower == << "a","b","c","d","e","f","g","h","i","j","k","l","m",
            "n","o","p","q","r","s","t","u","v","w","x","y","z" >>
Digits == << "0","1","2","3","4","5","6","7","8","9" >>

\* The standard base64 alphabet used by base64.b64encode and by Postgres
\* encode(..., 'base64'): index 0..63 is B64Alphabet[index + 1].
B64Alphabet == Upper \o Lower \o Digits \o << "+", "/" >>

Range(s) == { s[i] : i \in 1..Len(s) }

IndexOf(c, s) == CHOOSE i \in 1..Len(s) : s[i] = c

\* Code point of an ASCII character (the model's texts are ASCII, where the
\* UTF-8 encoding of a character is the single byte of its code point).
Ord(c) ==
    IF c \in Range(Upper) THEN 64 + IndexOf(c, Upper)
    ELSE IF c \in Range(Lower) THEN 96 + IndexOf(c, Lower)
    ELSE IF c \in Range(Digits) THEN 47 + IndexOf(c, Digits)
    ELSE CASE c = "\n" -> 10
           [] c = " "  -> 32
           [] c = "+"  -> 43
           [] c = "-"  -> 45
           [] c = "."  -> 46
           [] c = "/"  -> 47
           [] c = "="  -> 61
           [] c = "@"  -> 64
           [] c = "_"  -> 95

\* value.encode("utf-8") / convert_to(text, 'UTF8') on ASCII text.
Utf8(v) == [ i \in 1..Len(v) |-> Ord(v[i]) ]

B64Char(n) == B64Alphabet[n + 1]

\* RFC 4648 base64 of a byte sequence, '=' padded, without line breaks (the
\* SQL expression strips the newlines Postgres inserts).
RECURSIVE B64Encode(_)
B64Encode(bs) ==
    IF Len(bs) = 0 THEN << >>
    ELSE IF Len(bs) = 1 THEN
        LET n == bs[1] * 65536
        IN  << B64Char(n \div 262144), B64Char((n \div 4096) % 64), "=", "=" >>
    ELSE IF Len(bs) = 2 THEN
        LET n == bs[1] * 65536 + bs[2] * 256
        IN  << B64Char(n \div 262144), B64Char((n \div 4096) % 64),
               B64Char((n \div 64) % 64), "=" >>
    ELSE
        LET n == bs[1] * 65536 + bs[2] * 256 + bs[3]
        IN  << B64Char(n \div 262144), B64Char((n \div 4096) % 64),
               B64Char((n \div 64) % 64), B64Char(n % 64) >>
            \o B64Encode(SubSeq(bs, 4, Len(bs)))

TOKEN_PREFIX == << "t", "o", "k", "_" >>
TOKEN_SUFFIX == << "_", "p", "o", "c" >>

\* The character class [A-Za-z0-9+/=] of TOKEN_REGEX.
TokenBodyChars == Range(B64Alphabet) \cup { "=" }

HasPrefix(s, p) == Len(s) >= Len(p) /\ SubSeq(s, 1, Len(p)) = p
HasSuffix(s, p) == Len(s) >= Len(p) /\ SubSeq(s, Len(s) - Len(p) + 1, Len(s)) = p

\* The text strictly between a 4-character prefix and a 4-character suffix.
Body(s) == SubSeq(s, Len(TOKEN_PREFIX) + 1, Len(s) - Len(TOKEN_SUFFIX))

\* s is, from its first to its last character, tok_ + one or more characters
\* of the class + _poc.
FullMatchStrict(s) ==
    /\ Len(s) >= Len(TOKEN_PREFIX) + 1 + Len(TOKEN_SUFFIX)
    /\ HasPrefix(s, TOKEN_PREFIX)
    /\ HasSuffix(s, TOKEN_SUFFIX)
    /\ Range(Body(s)) \subseteq TokenBodyChars

\* TOKEN_REGEX.match(value): Python's '$' (no MULTILINE) matches at the end
\* of the text and also just before a newline that ends the text.
TokenRegexMatch(s) ==
    \/ FullMatchStrict(s)
    \/ /\ Len(s) >= 1
       /\ s[Len(s)] = "\n"
       /\ FullMatchStrict(SubSeq(s, 1, Len(s) - 1))

\* A token whose base64 body has lost its '=' padding.
TokenWithoutPadding(value) ==
    TOKEN_PREFIX \o SelectSeq(B64Encode(Utf8(value)), LAMBDA c : c # "=") \o TOKEN_SUFFIX

generate_token(value) == TOKEN_PREFIX \o B64Encode(Utf8(value)) \o TOKEN_SUFFIX

is_token(value) == IF value = None THEN FALSE ELSE TokenRegexMatch(value)

tokenize_if_needed(value) ==
    IF value = None THEN None
    ELSE IF is_token(value) THEN value
    ELSE generate_token(value)

\* --------------------------------------------------------------- database
HexDigits == << "0","1","2","3","4","5","6","7","8","9","a","b","c","d","e","f" >>

\* Postgres md5(text): 32 lower-case hexadecimal digits, a function of the
\* text alone.  The model keeps that contract with a small checksum in place
\* of the MD5 rounds; no statement of the code reads the digits themselves.
RECURSIVE Checksum(_)
Checksum(bs) == IF Len(bs) = 0 THEN 7 ELSE (31 * Checksum(Tail(bs)) + Head(bs)) % 65521

Md5Hex(v) ==
    LET d == Checksum(Utf8(v))
    IN  [ k \in 1..32 |-> HexDigits[(((d \div k) + 5 * k) % 16) + 1] ]

\* regex_token_pattern of TokenizeActionConfig, and TOKEN_REGEX.pattern.
regex_token_pattern == "^tok_.+_poc$"
TOKEN_REGEX_pattern == "^tok_[A-Za-z0-9+/=]+_poc$"

\* text ~ pattern in Postgres: '.' matches any character, '^' and '$' match
\* only at the two ends of the text.
PgRegexMatch(pattern, s) ==
    CASE pattern = regex_token_pattern ->
            /\ Len(s) >= Len(TOKEN_PREFIX) + 1 + Len(TOKEN_SUFFIX)
            /\ HasPrefix(s, TOKEN_PREFIX)
            /\ HasSuffix(s, TOKEN_SUFFIX)
      [] pattern = TOKEN_REGEX_pattern -> FullMatchStrict(s)

Rows == 1..NRows

\* information_schema.columns of the target table: column -> <<data_type,
\* udt_name>>.  id is the integer key, the other two hold text.
ColumnInfo ==
    [ id    |-> << "integer", "int4" >>,
      email |-> << "text", "text" >>,
      phone |-> << "character varying", "varchar" >> ]

_TEXTUAL_DATA_TYPES == { "text", "character varying", "character", "name" }
_TEXTUAL_UDT_NAMES == { "varchar", "text", "bpchar", "citext" }

\* A field path is its dot-separated segments; the column is the last one.
FieldPaths == { << "email" >>, << "phone" >>, << "id" >>, << "contact", "email" >> }
_field_path_to_column(field_path) == field_path[Len(field_path)]

\* Contents of one text column, by row: the input tables of the model.
PlainValue(r) == IF r % 2 = 1 THEN << "a" >> ELSE << "a", "b" >>
Fill(name, r) ==
    CASE name = "plain"     -> PlainValue(r)
      [] name = "tokenized" -> generate_token(PlainValue(r))
      [] name = "blank"     -> IF r = 1 THEN << >> ELSE PlainValue(r)
      [] name = "sparse"    -> IF r % 2 = 1 THEN None ELSE PlainValue(r)
      [] name = "partly"    -> IF r % 2 = 1 THEN generate_token(PlainValue(r))
                                             ELSE PlainValue(r)
EmailFills == { "plain", "tokenized", "blank", "sparse", "partly" }
PhoneFills == { "plain" }

Tables ==
    { [ id    |-> [ r \in Rows |-> << Digits[(r % 10) + 1] >> ],
        email |-> [ r \in Rows |-> Fill(e, r) ],
        phone |-> [ r \in Rows |-> Fill(p, r) ] ]
      : e \in EmailFills, p \in PhoneFills }

RECURSIVE SeqsUpTo(_, _)
SeqsUpTo(S, n) ==
    IF n = 0 THEN { << >> }
    ELSE LET shorter == SeqsUpTo(S, n - 1)
         IN  shorter \cup { Append(q, x) : q \in shorter, x \in S }

ColumnLists == SeqsUpTo(FieldPaths, MaxCols)

\* The catalog keeps one entry per field path.
Distinct(q) == \A i, j \in 1..Len(q) : q[i] = q[j] => i = j
FieldLists == { q \in ColumnLists : Distinct(q) }

\* ------------------------------------------------------- PostgresExecutor
\* WHERE column IS NOT NULL AND (column)::text !~ token_pattern
NeedsToken(value, token_pattern) ==
    value # None /\ ~PgRegexMatch(token_pattern, value)

\* A type lookup that takes every column for a text column.
AllColumnsTextual(column) ==
    [ textual |-> TRUE, data_type |-> ColumnInfo[column][1] ]

_is_textual_column(column) ==
    LET row == ColumnInfo[column]
    IN  [ textual   |-> (row[1] \in _TEXTUAL_DATA_TYPES) \/ (row[2] \in _TEXTUAL_UDT_NAMES),
          data_type |-> row[1] ]

_count_rows_to_tokenize(t, column, token_pattern) ==
    Cardinality({ r \in Rows : NeedsToken(t[column][r], token_pattern) })

_make_token_expression(value, use_base64) ==
    IF use_base64
    THEN TOKEN_PREFIX \o B64Encode(Utf8(value)) \o TOKEN_SUFFIX
    ELSE TOKEN_PREFIX \o Md5Hex(value) \o TOKEN_SUFFIX

\* An _execute_update that issues the UPDATE in a dry run as well.
UpdateIgnoringDryRun(t, column, token_pattern, use_base64, dry_run) ==
    [ table |->
        [ t EXCEPT ![column] =
            [ r \in Rows |->
                IF NeedsToken(t[column][r], token_pattern)
                THEN _make_token_expression(t[column][r], use_base64)
                ELSE t[column][r] ] ],
      rowcount |-> _count_rows_to_tokenize(t, column, token_pattern) ]

\* The UPDATE statement: the table it leaves and its rowcount.  In a dry run
\* the statement is not issued and 0 is returned.
_execute_update(t, column, token_pattern, use_base64, dry_run) ==
    IF dry_run
    THEN [ table |-> t, rowcount |-> 0 ]
    ELSE [ table |->
             [ t EXCEPT ![column] =
                 [ r \in Rows |->
                     IF NeedsToken(t[column][r], token_pattern)
                     THEN _make_token_expression(t[column][r], use_base64)
                     ELSE t[column][r] ] ],
           rowcount |-> _count_rows_to_tokenize(t, column, token_pattern) ]

\* ------------------------------------------------------------ configuration
DefaultConfig ==
    [ use_base64_tokens |-> TRUE,
      dry_run           |-> FALSE,
      max_columns       |-> << >>,        \* << >> is None, << n >> is n
      tenants           |-> { "t001" } ]

Configs ==
    { DefaultConfig,
      [ DefaultConfig EXCEPT !.use_base64_tokens = FALSE ],
      [ DefaultConfig EXCEPT !.dry_run = TRUE ],
      [ DefaultConfig EXCEPT !.max_columns = << 1 >> ],
      [ DefaultConfig EXCEPT !.tenants = { } ],
      [ DefaultConfig EXCEPT !.tenants = { "t001", "t002" } ] }

NoError == ""
NoCall ==
    [ status |-> "none", dry_run |-> FALSE, columns |-> << >>, total_rows |-> 0,
      per_column |-> << >>, error |-> NoError, raised |-> NoError, commits |-> 0,
      dirty |-> FALSE, run |-> 0 ]

\* ------------------------------------------------------------------ events
\* A trigger event: a metadata-change-log tag update on the target dataset or
\* on one of its fields, and the ways it can be off.
GoodEvent ==
    [ event_type   |-> "METADATA_CHANGE_LOG_EVENT",
      aspectName   |-> "globalTags",
      entityType   |-> "dataset",
      hasUrn       |-> TRUE,
      platform     |-> "postgres",
      nameParts    |-> 3,
      schema       |-> "t001",
      field_path   |-> << >>,
      new_has_tag  |-> TRUE,
      prev_has_tag |-> FALSE ]

Events ==
    { GoodEvent,
      [ GoodEvent EXCEPT !.event_type = "ENTITY_CHANGE_EVENT" ],
      [ GoodEvent EXCEPT !.aspectName = "schemaMetadata" ],
      [ GoodEvent EXCEPT !.entityType = "chart" ],
      [ GoodEvent EXCEPT !.hasUrn = FALSE ],
      [ GoodEvent EXCEPT !.platform = "mysql" ],
      [ GoodEvent EXCEPT !.nameParts = 1, !.schema = "" ],
      [ GoodEvent EXCEPT !.schema = "t002" ],
      [ GoodEvent EXCEPT !.new_has_tag = FALSE ],
      [ GoodEvent EXCEPT !.prev_has_tag = TRUE ] }
    \cup { [ GoodEvent EXCEPT !.entityType = "schemaField", !.field_path = f ]
           : f \in FieldPaths }

\* Before the first event.
NoEvent == [ GoodEvent EXCEPT !.event_type = "" ]

\* ------------------------------------------------------------------ state
VARIABLES
    codecTrail,   \* the values one caller has seen: input, then each result
    codecOps,     \* the token_logic functions applied, in order
    codecFlags,   \* the answers of is_token, in order
    service,      \* which program this behaviour runs
    cfg,          \* its configuration, immutable once loaded
    inColumns,    \* the column list of the caller / the PII fields of the catalog
    callBudget,   \* how many calls the environment makes in this behaviour
    db,           \* the committed contents of the target table
    tx,           \* the table as the open transaction sees it
    conn,         \* the executor's connection: "none", "open", "closed"
    session,      \* who the connection was opened as, and during which call
    pc,           \* where the running call stands
    args,         \* the arguments of the running tokenize call
    colIdx,       \* loop index into args.columns
    per_column,   \* the plans appended so far
    total_rows,   \* the running total
    rows_to_update, \* the count of the column in hand
    error,        \* the exception in flight, NoError when none
    calls,        \* calls begun so far
    faults,       \* environment failures so far
    commits,      \* commits issued by the running call
    pre,          \* the committed table when the running call began
    dirty,        \* whether the failed call had uncommitted changes to undo
    last,         \* what the last finished call gave its caller
    prev,         \* what the call before that gave
    runs,         \* catalog: the properties record of each run, by run id
    runEvents,    \* catalog: the run events emitted, in order
    ensured_metadata, \* TokenizeAction._ensured_metadata
    event,        \* the event act() was last handed
    manager,      \* RunManager: the dataset's platform and the manager's settings
    columns,      \* RunManager.process: the detected columns, sorted
    rows,         \* tokenize_table: the fetched candidate rows still to visit
    updated_rows, \* tokenize_table: rows updated so far
    skipped_rows, \* tokenize_table: rows skipped so far
    last_tokenization_run, \* catalog: the dataset property of that name
    tags,         \* catalog: the tokenize/* tags on the dataset
    fieldTags,    \* catalog: the run and tokenized tags on each schema field
    tagOps,       \* the tag writes of the running poll: issued, and refused
    racers,       \* two concurrent tokenize calls on one table, by run
    evalCall,     \* pii-classifier: one evaluation call, its inputs and result
    clf,          \* pii-classifier: PIIClassifier.run, its inputs and the catalog
    detCall,      \* PiiDetector.detect: one call, its inputs and result
    verifyCall,   \* verify_poc: one evaluate_run_transitions call
    consumer,     \* MCLConsumer: its thread, stop flag, polls and the catalog it sees
    gql           \* ui_ingestion_runner: one GraphQLClient._execute call

codecVars == << codecTrail, codecOps, codecFlags >>
execVars == << db, tx, conn, session, pc, args, colIdx, per_column, total_rows,
               rows_to_update, error, calls, faults, commits, pre, dirty, last, prev >>
toolVars == << detCall, verifyCall, consumer, gql >>
setupVars == << service, cfg, inColumns, callBudget, manager, racers, evalCall, clf,
                detCall, verifyCall, consumer, gql >>
actVars == << runs, runEvents, ensured_metadata, event >>
rmVars == << columns, rows, updated_rows, skipped_rows, last_tokenization_run, tags,
            fieldTags, tagOps >>
vars == << codecVars, setupVars, execVars, actVars, rmVars >>

\* No "last_tokenization_run" property yet.
NoRun == [ run_id |-> 0, status |-> "", columns |-> << >>, rows_updated |-> 0,
           rows_skipped |-> 0, message |-> "" ]

RUN_TAG_URN == "urn:li:tag:tokenize/run"
DONE_TAG_URN == "urn:li:tag:tokenize/done"
STATUS_SUCCESS_TAG == "urn:li:tag:tokenize/status:SUCCESS"
STATUS_FAILED_TAG == "urn:li:tag:tokenize/status:FAILED"
FIELD_TOKENIZED_TAG == "urn:li:tag:tokenized"

\* A RunManager and the dataset it is given.
\* fields: whether the catalog holds the schema (the field list) of the dataset.
NoManager == [ platform |-> "", conn_str |-> FALSE, batch_limit |-> 0, fields |-> FALSE ]
Managers ==
    { [ platform |-> p, conn_str |-> TRUE, batch_limit |-> l, fields |-> TRUE ]
      : p \in { "postgres", "databricks" }, l \in { 1, 100 } }
    \cup { [ platform |-> "postgres", conn_str |-> FALSE, batch_limit |-> 100,
             fields |-> TRUE ],
           [ platform |-> "mysql", conn_str |-> TRUE, batch_limit |-> 100,
             fields |-> TRUE ],
           [ platform |-> "postgres", conn_str |-> TRUE, batch_limit |-> 100,
             fields |-> FALSE ] }

\* The run and tokenized tags on the fields of the dataset when the poll
\* finds it.
NoFieldTags == [ f \in FieldPaths |-> { } ]
NoTagOps == [ issued |-> { }, refused |-> { } ]
FieldTagStates ==
    { NoFieldTags,
      [ NoFieldTags EXCEPT ![<< "email" >>] = { RUN_TAG_URN } ],
      [ NoFieldTags EXCEPT ![<< "email" >>] = { FIELD_TOKENIZED_TAG } ],
      [ NoFieldTags EXCEPT ![<< "id" >>] = { RUN_TAG_URN },
                           ![<< "phone" >>] = { RUN_TAG_URN, FIELD_TOKENIZED_TAG } ] }

NoArgs == [ tenant_id |-> "", schema |-> "", columns |-> << >>, use_base64 |-> TRUE,
           dry_run |-> FALSE ]

\* No connection has been opened yet.
NoSession == [ user |-> "", opened_in |-> 0 ]

\* The two runs of the concurrent specification; elsewhere there are none.
Runs == { 1, 2 }
NoRacers == << >>

\* The pii-classifier service is not running.
NoEvalCall == << >>
NoClassifier == << >>

\* The detector, the verifier, the consumer and the GraphQL client are separate
\* programs: each is absent from a behaviour of another service.
NoDetect == << >>
NoVerify == << >>
NoConsumer == << >>
NoGql == << >>
ToolsParked ==
    /\ detCall = NoDetect
    /\ verifyCall = NoVerify
    /\ consumer = NoConsumer
    /\ gql = NoGql

\* The values the service variables rest at while no call is running.
Parked(table) ==
    /\ db = table
    /\ tx = table
    /\ pre = table
    /\ conn = "none"
    /\ session = NoSession
    /\ pc = "idle"
    /\ args = NoArgs
    /\ colIdx = 1
    /\ per_column = << >>
    /\ total_rows = 0
    /\ rows_to_update = 0
    /\ error = NoError
    /\ calls = 0
    /\ faults = 0
    /\ commits = 0
    /\ dirty = FALSE
    /\ last = NoCall
    /\ prev = NoCall
    /\ runs = << >>
    /\ runEvents = << >>
    /\ ensured_metadata = FALSE
    /\ event = NoEvent
    /\ columns = << >>
    /\ rows = << >>
    /\ updated_rows = 0
    /\ skipped_rows = 0
    /\ last_tokenization_run = NoRun
    /\ tags = { RUN_TAG_URN }
    /\ tagOps = NoTagOps

CodecParked ==
    /\ codecTrail = << None >>
    /\ codecOps = << >>
    /\ codecFlags = << >>

\* ------------------------------------------------------ codec specification
CodecAlphabet == { "a", "_", "\n" }

RECURSIVE TextsUpTo(_)
TextsUpTo(n) ==
    IF n = 0 THEN { << >> }
    ELSE LET shorter == TextsUpTo(n - 1)
         IN  shorter \cup { Append(s, c) : s \in shorter, c \in CodecAlphabet }

\* Inputs: None, every text over CodecAlphabet up to MaxStrLen, the tokens of
\* those texts, and such a token followed by a newline.
CodecInputs ==
    LET plain == TextsUpTo(MaxStrLen)
    IN  { None } \cup plain
          \cup { generate_token(p) : p \in plain }
          \cup { Append(generate_token(p), "\n") : p \in plain }

CodecInit ==
    /\ codecTrail \in { << v >> : v \in CodecInputs }
    /\ codecOps = << >>
    /\ codecFlags = << >>
    /\ service = "codec"
    /\ cfg = DefaultConfig
    /\ inColumns = << >>
    /\ callBudget = 0
    /\ manager = NoManager
    /\ fieldTags = NoFieldTags
    /\ Parked(CHOOSE t \in Tables : TRUE)
    /\ racers = NoRacers
    /\ evalCall = NoEvalCall
    /\ clf = NoClassifier
    /\ ToolsParked

CodecCurrent == codecTrail[Len(codecTrail)]

CodecGenerate ==
    /\ Len(codecOps) < MaxCodecOps
    /\ CodecCurrent # None
    /\ codecTrail' = Append(codecTrail, generate_token(CodecCurrent))
    /\ codecOps' = Append(codecOps, "generate_token")
    /\ UNCHANGED << codecFlags, setupVars, execVars, actVars, rmVars >>

CodecIsToken ==
    /\ Len(codecOps) < MaxCodecOps
    /\ codecFlags' = Append(codecFlags, is_token(CodecCurrent))
    /\ codecOps' = Append(codecOps, "is_token")
    /\ UNCHANGED << codecTrail, setupVars, execVars, actVars, rmVars >>

CodecTokenizeIfNeeded ==
    /\ Len(codecOps) < MaxCodecOps
    /\ codecTrail' = Append(codecTrail, tokenize_if_needed(CodecCurrent))
    /\ codecOps' = Append(codecOps, "tokenize_if_needed")
    /\ UNCHANGED << codecFlags, setupVars, execVars, actVars, rmVars >>

CodecNext ==
    \/ CodecGenerate
    \/ CodecIsToken
    \/ CodecTokenizeIfNeeded

SpecCodec == CodecInit /\ [][CodecNext]_vars

\* ------------------------------------------------------------ codec claims
LastOp == codecOps[Len(codecOps)]
PrevValue == codecTrail[Len(codecTrail) - 1]

\* C5: is_token(generate_token(x)) is true for every string x, the empty
\* string included, and is_token(None) is false: whenever is_token has just
\* been asked about the result of generate_token it answered True, and
\* whenever it has just been asked about None it answered False.
C5_IsTokenOfGeneratedToken ==
    /\ ( /\ Len(codecOps) >= 2
         /\ LastOp = "is_token"
         /\ codecOps[Len(codecOps) - 1] = "generate_token" )
       => codecFlags[Len(codecFlags)] = TRUE
    /\ ( /\ Len(codecOps) >= 1
         /\ LastOp = "is_token"
         /\ CodecCurrent = None )
       => codecFlags[Len(codecFlags)] = FALSE

\* C6: tokenize_if_needed never re-tokenizes: None gives None, a value that
\* is_token accepts comes back unchanged, and applying it to its own result
\* changes nothing (tokenize_if_needed(tokenize_if_needed(v)) =
\* tokenize_if_needed(v)).
C6_TokenizeIfNeededIdempotent ==
    /\ ( /\ Len(codecOps) >= 1
         /\ LastOp = "tokenize_if_needed" )
       => /\ PrevValue = None => CodecCurrent = None
          /\ is_token(PrevValue) => CodecCurrent = PrevValue
    /\ ( /\ Len(codecOps) >= 2
         /\ LastOp = "tokenize_if_needed"
         /\ codecOps[Len(codecOps) - 1] = "tokenize_if_needed" )
       => CodecCurrent = PrevValue

\* -------------------------------------------- PostgresExecutor.tokenize steps
TargetTenant == "t001"      \* schema of the target table t001.customers

\* The schemas of the database that hold a customers table.
Schemas == { TargetTenant }

\* PostgresExecutor._tenant_lookup: the credential of each configured tenant
\* (username defaults to the tenant id).
_tenant_lookup == [ t \in cfg.tenants |-> [ tenant_id |-> t, username |-> t ] ]

\* A lookup that hands every tenant the credential of the first one.
SharedCredential(tenant_id) == _tenant_lookup[TargetTenant]

_resolve_credentials(tenant_id) == _tenant_lookup[tenant_id]

CurrentField == args.columns[colIdx]
CurrentColumn == _field_path_to_column(CurrentField)

Plan(field_path, n, data_type) ==
    [ field_path |-> field_path, rows_to_update |-> n, data_type |-> data_type ]

\* for column in columns: the next iteration, or the end of the loop.
LoopHead(i) == IF i > Len(args.columns) THEN "finish" ELSE "lookup"

\* tokenize() is entered: per_column = [], total_rows = 0.
EnterTokenize ==
    /\ pc' = "connect"
    /\ per_column' = << >>
    /\ total_rows' = 0
    /\ rows_to_update' = 0
    /\ colIdx' = 1
    /\ error' = NoError
    /\ commits' = 0
    /\ dirty' = FALSE
    /\ pre' = db
    /\ calls' = calls + 1
    /\ prev' = (IF last.status \in { "none", "skipped" } THEN prev ELSE last)
    /\ last' = NoCall

\* The environment makes a call fail (within the failure budget).
Fault ==
    /\ faults < MaxFaults
    /\ faults' = faults + 1

\* A statement raises: the exception is caught by "except Exception".
Raise(exc) ==
    /\ error' = exc
    /\ pc' = "except"

\* A direct caller invokes PostgresExecutor.tokenize.
ExecBegin ==
    /\ service = "executor"
    /\ pc = "idle"
    /\ calls < callBudget
    /\ \E dry \in BOOLEAN :
         args' = [ tenant_id |-> TargetTenant, schema |-> TargetTenant,
                   columns |-> inColumns,
                   use_base64 |-> cfg.use_base64_tokens, dry_run |-> dry ]
    /\ EnterTokenize
    /\ UNCHANGED << db, tx, conn, session, faults, codecVars, setupVars, actVars, rmVars >>

\* connection(): _resolve_credentials, then psycopg2.connect.
Connect ==
    /\ pc = "connect"
    /\ IF args.tenant_id \notin cfg.tenants
       THEN /\ error' = "KeyError"
            /\ pc' = "return"
            /\ UNCHANGED << conn, session, tx, faults >>
       ELSE \/ /\ conn' = "open"
               /\ session' = [ user      |-> _resolve_credentials(args.tenant_id).username,
                               opened_in |-> calls ]
               /\ tx' = db
               /\ pc' = "setup"
               /\ UNCHANGED << error, faults >>
            \/ /\ Fault
               /\ error' = "OperationalError"
               /\ pc' = "return"
               /\ UNCHANGED << conn, session, tx >>
    /\ UNCHANGED << db, args, colIdx, per_column, total_rows, rows_to_update,
                    calls, commits, pre, dirty, last, prev,
                    codecVars, setupVars, actVars, rmVars >>

\* SET search_path / SET ROLE inside the context manager, then the body of
\* the with block begins (conn.autocommit = False).
SessionSetup ==
    /\ pc = "setup"
    /\ \/ /\ pc' = LoopHead(1)
          /\ UNCHANGED << error, faults >>
       \/ /\ Fault
          /\ error' = "OperationalError"
          /\ pc' = "close"
    /\ UNCHANGED << db, tx, conn, session, args, colIdx, per_column, total_rows,
                    rows_to_update, calls, commits, pre, dirty, last, prev,
                    codecVars, setupVars, actVars, rmVars >>

\* _is_textual_column and the non-textual branch of the loop.
TypeLookup ==
    /\ pc = "lookup"
    /\ \/ /\ Fault
          /\ Raise("OperationalError")
          /\ UNCHANGED << per_column, colIdx >>
       \/ /\ UNCHANGED faults
          /\ IF args.schema \notin Schemas \/ CurrentColumn \notin DOMAIN ColumnInfo
             THEN /\ Raise("ValueError")
                  /\ UNCHANGED << per_column, colIdx >>
             ELSE LET info == _is_textual_column(CurrentColumn)
                  IN  IF ~info.textual
                      THEN /\ per_column' = Append(per_column,
                                                   Plan(CurrentField, 0, info.data_type))
                           /\ colIdx' = colIdx + 1
                           /\ pc' = LoopHead(colIdx + 1)
                           /\ UNCHANGED error
                      ELSE /\ pc' = "count"
                           /\ UNCHANGED << per_column, colIdx, error >>
    /\ UNCHANGED << db, tx, conn, session, args, total_rows, rows_to_update, calls,
                    commits, pre, dirty, last, prev, codecVars, setupVars, actVars, rmVars >>

\* _count_rows_to_tokenize; total_rows += rows_to_update; a zero count
\* appends its plan at once.
CountRows ==
    /\ pc = "count"
    /\ \/ /\ Fault
          /\ Raise("OperationalError")
          /\ UNCHANGED << per_column, colIdx, total_rows, rows_to_update >>
       \/ LET n == _count_rows_to_tokenize(tx, CurrentColumn, regex_token_pattern)
          IN  /\ UNCHANGED faults
              /\ total_rows' = total_rows + n
              /\ rows_to_update' = n
              /\ UNCHANGED error
              /\ IF n > 0
                 THEN /\ pc' = "update"
                      /\ UNCHANGED << per_column, colIdx >>
                 ELSE /\ per_column' = Append(per_column,
                              Plan(CurrentField, n, _is_textual_column(CurrentColumn).data_type))
                      /\ colIdx' = colIdx + 1
                      /\ pc' = LoopHead(colIdx + 1)
    /\ UNCHANGED << db, tx, conn, session, args, calls, commits, pre, dirty, last, prev,
                    codecVars, setupVars, actVars, rmVars >>

\* _execute_update, the correction of the totals, and the plan of the column.
\* In a dry run no statement is sent, so there is nothing that can raise.
ExecuteUpdate ==
    /\ pc = "update"
    /\ \/ /\ ~args.dry_run
          /\ Fault
          /\ Raise("OperationalError")
          /\ UNCHANGED << tx, per_column, colIdx, total_rows, rows_to_update >>
       \/ LET u == _execute_update(tx, CurrentColumn, regex_token_pattern,
                                   args.use_base64, args.dry_run)
              n == IF args.dry_run THEN rows_to_update ELSE u.rowcount
          IN  /\ UNCHANGED faults
              /\ tx' = u.table
              /\ total_rows' = IF args.dry_run THEN total_rows
                               ELSE total_rows - rows_to_update + u.rowcount
              /\ rows_to_update' = n
              /\ per_column' = Append(per_column,
                      Plan(CurrentField, n, _is_textual_column(CurrentColumn).data_type))
              /\ colIdx' = colIdx + 1
              /\ pc' = LoopHead(colIdx + 1)
              /\ UNCHANGED error
    /\ UNCHANGED << db, conn, session, args, calls, commits, pre, dirty, last, prev,
                    codecVars, setupVars, actVars, rmVars >>

\* After the loop: conn.rollback() in a dry run, conn.commit() otherwise.
Finish ==
    /\ pc = "finish"
    /\ \/ /\ Fault
          /\ Raise("OperationalError")
          /\ UNCHANGED << db, tx, commits >>
       \/ /\ UNCHANGED faults
          /\ IF args.dry_run
             THEN /\ tx' = db
                  /\ UNCHANGED << db, commits >>
             ELSE /\ db' = tx
                  /\ commits' = commits + 1
                  /\ UNCHANGED tx
          /\ pc' = "close"
          /\ UNCHANGED error
    /\ UNCHANGED << conn, session, args, colIdx, per_column, total_rows, rows_to_update,
                    calls, pre, dirty, last, prev, codecVars, setupVars, actVars, rmVars >>

\* An except block that commits what the transaction holds instead of
\* rolling it back.
ExceptHandlerCommitting ==
    /\ pc = "except"
    /\ dirty' = (tx # db)
    /\ db' = tx
    /\ pc' = "close"
    /\ UNCHANGED << tx, conn, session, args, colIdx, per_column, total_rows, rows_to_update,
                    error, calls, faults, commits, pre, last, prev,
                    codecVars, setupVars, actVars, rmVars >>

\* except Exception: conn.rollback(); raise.  A rollback that raises has
\* lost the connection, and the server ends the transaction without it; the
\* rollback's exception is the one that leaves the block.
ExceptHandler ==
    /\ pc = "except"
    /\ dirty' = (tx # db)
    /\ tx' = db
    /\ pc' = "close"
    /\ \/ UNCHANGED << error, faults >>
       \/ /\ Fault
          /\ error' = "OperationalError"
    /\ UNCHANGED << db, conn, session, args, colIdx, per_column, total_rows,
                    rows_to_update, calls, commits, pre, last, prev,
                    codecVars, setupVars, actVars, rmVars >>

\* finally: conn.close() -- an open transaction is discarded with it.
Close ==
    /\ pc = "close"
    /\ conn' = "closed"
    /\ tx' = db
    /\ pc' = "return"
    /\ UNCHANGED << db, session, args, colIdx, per_column, total_rows, rows_to_update,
                    error, calls, faults, commits, pre, dirty, last, prev,
                    codecVars, setupVars, actVars, rmVars >>

\* An outcome that keeps the counts gathered before the exception.
OutcomeKeepingCounts ==
    [ status     |-> IF error = NoError THEN "returned" ELSE "raised",
      dry_run    |-> args.dry_run,
      columns    |-> args.columns,
      total_rows |-> total_rows,
      per_column |-> per_column,
      error      |-> error,
      raised     |-> error,
      commits    |-> commits,
      dirty      |-> dirty,
      run        |-> 0 ]

\* What a finished tokenize call hands back: the TokenizationOutcome, or the
\* exception.
Outcome ==
    [ status     |-> IF error = NoError THEN "returned" ELSE "raised",
      dry_run    |-> args.dry_run,
      columns    |-> args.columns,
      total_rows |-> IF error = NoError THEN total_rows ELSE 0,
      per_column |-> IF error = NoError THEN per_column ELSE << >>,
      error      |-> error,
      raised     |-> error,
      commits    |-> commits,
      dirty      |-> dirty,
      run        |-> 0 ]

\* tokenize returns to (or raises into) its direct caller.
ExecReturn ==
    /\ service = "executor"
    /\ pc = "return"
    /\ last' = Outcome
    /\ pc' = "idle"
    /\ conn' = "none"
    /\ UNCHANGED << db, tx, session, args, colIdx, per_column, total_rows,
                    rows_to_update, error, calls, faults, commits, pre, dirty, prev,
                    codecVars, setupVars, actVars, rmVars >>

ExecutorStep ==
    \/ Connect
    \/ SessionSetup
    \/ TypeLookup
    \/ CountRows
    \/ ExecuteUpdate
    \/ Finish
    \/ ExceptHandler
    \/ Close

\* ------------------------------------------------------- TokenizeAction.act
dataset_platforms == { "postgres" }

\* The early returns of act without the check of the platform.
SkipReasonAnyPlatform(ev) ==
    IF ev.event_type # "METADATA_CHANGE_LOG_EVENT" THEN "not_metadata_change_log"
    ELSE IF ev.aspectName # "globalTags" THEN "not_global_tags"
    ELSE IF ev.entityType = "dataset" /\ ~ev.hasUrn THEN "missing_dataset_urn"
    ELSE IF ev.entityType = "schemaField" /\ ~ev.hasUrn THEN "missing_field_urn"
    ELSE IF ev.entityType \notin { "dataset", "schemaField" } THEN "unsupported_entity_type"
    ELSE IF ev.nameParts < 2 THEN "dataset_name_format"
    ELSE IF ~ev.new_has_tag THEN "token_tag_not_present"
    ELSE IF ev.prev_has_tag THEN "token_tag_already_present"
    ELSE ""

\* The early returns of act without the look at the previous tag set.
SkipReasonIgnoringPrevious(ev) ==
    IF ev.event_type # "METADATA_CHANGE_LOG_EVENT" THEN "not_metadata_change_log"
    ELSE IF ev.aspectName # "globalTags" THEN "not_global_tags"
    ELSE IF ev.entityType = "dataset" /\ ~ev.hasUrn THEN "missing_dataset_urn"
    ELSE IF ev.entityType = "schemaField" /\ ~ev.hasUrn THEN "missing_field_urn"
    ELSE IF ev.entityType \notin { "dataset", "schemaField" } THEN "unsupported_entity_type"
    ELSE IF ev.platform \notin dataset_platforms THEN "unsupported_platform"
    ELSE IF ev.nameParts < 2 THEN "dataset_name_format"
    ELSE IF ~ev.new_has_tag THEN "token_tag_not_present"
    ELSE ""

\* The early returns of act, in order: "" when the event starts a run.
SkipReason(ev) ==
    IF ev.event_type # "METADATA_CHANGE_LOG_EVENT" THEN "not_metadata_change_log"
    ELSE IF ev.aspectName # "globalTags" THEN "not_global_tags"
    ELSE IF ev.entityType = "dataset" /\ ~ev.hasUrn THEN "missing_dataset_urn"
    ELSE IF ev.entityType = "schemaField" /\ ~ev.hasUrn THEN "missing_field_urn"
    ELSE IF ev.entityType \notin { "dataset", "schemaField" } THEN "unsupported_entity_type"
    ELSE IF ev.platform \notin dataset_platforms THEN "unsupported_platform"
    ELSE IF ev.nameParts < 2 THEN "dataset_name_format"
    ELSE IF ~ev.new_has_tag THEN "token_tag_not_present"
    ELSE IF ev.prev_has_tag THEN "token_tag_already_present"
    ELSE ""

\* _resolve_columns: the PII-tagged fields of the editable schema, in order,
\* narrowed to the event's field when it names one.
_resolve_columns(target_field) ==
    LET Keep(f) == target_field = << >> \/ f = target_field
    IN  SelectSeq(inColumns, Keep)

\* rows_to_update of the last plan with this field path (per_column_map is a
\* dict keyed by field path), 0 when there is none.
RowsOfField(plans, field_path) ==
    LET hits == { i \in 1..Len(plans) : plans[i].field_path = field_path }
    IN  IF hits = { } THEN 0
        ELSE plans[CHOOSE i \in hits : \A j \in hits : j <= i].rows_to_update

\* act() ends before a run has started; what is left alone on that path.
ActEnds(result) ==
    /\ last' = result
    /\ prev' = (IF last.status \in { "none", "skipped" } THEN prev ELSE last)
    /\ calls' = calls + 1
    /\ UNCHANGED << db, tx, conn, session, pc, args, colIdx, per_column, total_rows,
                    rows_to_update, error, commits, pre, dirty, runEvents >>

\* act() logs event.skipped with the reason and returns without a run.
ActSkip(reason) ==
    /\ ActEnds([ NoCall EXCEPT !.status = "skipped" ])
    /\ UNCHANGED << faults, runs, ensured_metadata >>

\* The properties aspect _start_run emits: base_custom_properties.  status
\* and the row counts are absent ("unset", << >>) until _complete_run.
RunProperties(cols) ==
    [ status |-> "unset", columns |-> cols, rows_affected_total |-> << >>,
      rows_per_field |-> << >>, error |-> NoError, dry_run |-> cfg.dry_run,
      tenant_id |-> event'.schema, writes |-> 1 ]

\* An act that opens the run record before it checks the column limit.
ActRaiseAfterRecord(exc) ==
    /\ ActEnds([ NoCall EXCEPT !.status = "raised", !.raised = exc ])
    /\ runs' = Append(runs, RunProperties(<< >>))
    /\ UNCHANGED << faults, ensured_metadata >>

\* act() raises before a run exists.
ActRaise(exc) ==
    /\ ActEnds([ NoCall EXCEPT !.status = "raised", !.raised = exc ])
    /\ UNCHANGED << faults, runs, ensured_metadata >>

\* The catalog refuses an emit of _ensure_metadata or of _start_run: act
\* raises it.  The STARTED run event is the last emit of _start_run, so it
\* has not been sent; the properties aspect may or may not have been.
ActStartRefused(cols) ==
    /\ Fault
    /\ ActEnds([ NoCall EXCEPT !.status = "raised", !.raised = "CatalogError" ])
    /\ \/ UNCHANGED << runs, ensured_metadata >>
       \/ /\ ensured_metadata' = TRUE
          /\ runs' = Append(runs, RunProperties(cols))

\* A _start_run that sends the properties aspect but no STARTED run event.
ActStartWithoutEvent(cols) ==
    /\ ensured_metadata' = TRUE
    /\ runs' = Append(runs, RunProperties(cols))
    /\ args' = [ tenant_id |-> event'.schema, schema |-> event'.schema,
                 columns |-> cols,
                 use_base64 |-> cfg.use_base64_tokens, dry_run |-> cfg.dry_run ]
    /\ EnterTokenize
    /\ UNCHANGED << db, tx, conn, session, faults, runEvents >>

\* _ensure_metadata, _start_run, and the call of the executor.
ActStart(cols) ==
    /\ ensured_metadata' = TRUE
    /\ runs' = Append(runs, RunProperties(cols))
    /\ runEvents' = Append(runEvents,
                 [ run |-> Len(runs) + 1, status |-> "STARTED", result |-> "" ])
    /\ args' = [ tenant_id |-> event'.schema, schema |-> event'.schema,
                 columns |-> cols,
                 use_base64 |-> cfg.use_base64_tokens, dry_run |-> cfg.dry_run ]
    /\ EnterTokenize
    /\ UNCHANGED << db, tx, conn, session, faults >>

\* The runtime hands an event to act(): everything up to the executor call.
ActBegin ==
    /\ service = "action"
    /\ pc = "idle"
    /\ calls < callBudget
    /\ \E ev \in Events :
         /\ event' = ev
         /\ IF SkipReason(ev) # "" THEN ActSkip(SkipReason(ev))
            ELSE LET cols == _resolve_columns(ev.field_path)
                 IN  IF cols = << >> THEN ActSkip("no_pii_columns")
                     ELSE IF cfg.max_columns # << >> /\ Len(cols) > cfg.max_columns[1]
                          THEN ActRaise("RuntimeError")
                          ELSE ActStart(cols) \/ ActStartRefused(cols)
    /\ UNCHANGED << codecVars, setupVars, rmVars >>

CurrentRun == Len(runs)

\* An act without the finally block: _complete_run only after a tokenize
\* that returned.
ActCompleteOnSuccessOnly ==
    /\ service = "action"
    /\ pc = "return"
    /\ LET handle  == runs[CurrentRun]
           written == [ runs EXCEPT ![CurrentRun] =
                          [ handle EXCEPT
                              !.status = "SUCCESS",
                              !.rows_affected_total = << Outcome.total_rows >>,
                              !.rows_per_field =
                                 [ i \in 1..Len(handle.columns) |->
                                     RowsOfField(Outcome.per_column, handle.columns[i]) ],
                              !.writes = handle.writes + 1 ] ]
       IN  IF error = NoError
           THEN /\ runs' = written
                /\ runEvents' = Append(runEvents,
                                   [ run |-> CurrentRun, status |-> "COMPLETE",
                                     result |-> "SUCCESS" ])
           ELSE UNCHANGED << runs, runEvents >>
    /\ last' = [ Outcome EXCEPT !.run = CurrentRun ]
    /\ pc' = "idle"
    /\ conn' = "none"
    /\ UNCHANGED << db, tx, session, args, colIdx, per_column, total_rows,
                    rows_to_update, error, calls, faults, commits, pre, dirty, prev,
                    ensured_metadata, event, codecVars, setupVars, rmVars >>

\* The finally block of act: _complete_run (the properties aspect, then the
\* COMPLETE run event), then "raise error" or return.  An emit the catalog
\* refuses raises out of the finally block in place of the executor's error.
ActComplete ==
    /\ service = "action"
    /\ pc = "return"
    /\ LET success == error = NoError
           outcome == Outcome
           result  == IF success THEN "SUCCESS" ELSE "FAILURE"
           handle  == runs[CurrentRun]
           written == [ runs EXCEPT ![CurrentRun] =
                          [ handle EXCEPT
                              !.status = result,
                              !.rows_affected_total = << outcome.total_rows >>,
                              !.rows_per_field =
                                 [ i \in 1..Len(handle.columns) |->
                                     RowsOfField(outcome.per_column, handle.columns[i]) ],
                              !.error = error,
                              !.writes = handle.writes + 1 ] ]
           refused == [ outcome EXCEPT !.status = "raised", !.raised = "CatalogError",
                                       !.run = CurrentRun ]
       IN  \/ /\ runs' = written
              /\ runEvents' = Append(runEvents,
                                 [ run |-> CurrentRun, status |-> "COMPLETE",
                                   result |-> result ])
              /\ last' = [ outcome EXCEPT !.run = CurrentRun ]
              /\ UNCHANGED faults
           \/ /\ Fault
              /\ runs' \in { runs, written }
              /\ last' = refused
              /\ UNCHANGED runEvents
    /\ pc' = "idle"
    /\ conn' = "none"
    /\ UNCHANGED << db, tx, session, args, colIdx, per_column, total_rows,
                    rows_to_update, error, calls, commits, pre, dirty, prev,
                    ensured_metadata, event, codecVars, setupVars, rmVars >>

\* ------------------------------------------------------ RunManager.process
\* The fields the catalog has tagged as PII are text columns.
TextFieldPaths ==
    { f \in FieldPaths : _is_textual_column(_field_path_to_column(f)).textual }
TextFieldLists == { q \in FieldLists : Range(q) \subseteq TextFieldPaths }

\* DatasetMetadata.fields: the schema fields the catalog lists.
DatasetFields == IF manager.fields THEN FieldPaths ELSE { }

\* _heuristic_detection without samples: the columns whose name contains one
\* of DEFAULT_PATTERN_CONFIG's name_patterns ("email", "phone", "contact", ...).
NameMatches == { "email", "phone" }

\* PiiDetector.detect without explicit fields: the columns of the PII-tagged
\* fields, as a set; when no field is tagged, the heuristic's columns.
detect ==
    LET tagged == { _field_path_to_column(inColumns[i]) :
                      i \in { k \in 1..Len(inColumns) : inColumns[k] \in DatasetFields } }
        named  == { _field_path_to_column(f) : f \in DatasetFields } \cap NameMatches
    IN  IF tagged # { } THEN tagged ELSE named

\* sorted() of column names: ascending code points.
ColumnOrder == << "email", "id", "phone" >>
sorted(S) ==
    LET In(c) == c \in S
    IN  SelectSeq(ColumnOrder, In)

RECURSIVE Ascending(_)
Ascending(S) ==
    IF S = { } THEN << >>
    ELSE LET m == CHOOSE x \in S : \A y \in S : x <= y
         IN  << m >> \o Ascending(S \ { m })

\* WHERE (c IS NOT NULL AND c !~ TOKEN_REGEX.pattern) OR ...
Candidates(t, cols) ==
    { r \in Rows : \E i \in 1..Len(cols) :
        /\ t[cols[i]][r] # None
        /\ ~PgRegexMatch(TOKEN_REGEX_pattern, t[cols[i]][r]) }

\* cursor.fetchall() of the SELECT: Postgres orders by id before LIMIT;
\* Databricks has no ORDER BY, so any LIMIT-many candidates in any order.
Fetch(t, cols, platform, limit) ==
    LET cand == Candidates(t, cols)
        k    == IF limit < Cardinality(cand) THEN limit ELSE Cardinality(cand)
    IN  IF platform = "postgres"
        THEN { SubSeq(Ascending(cand), 1, k) }
        ELSE { q \in SeqsUpTo(cand, NRows) : Len(q) = k /\ Distinct(q) }

\* updates: the columns of row r the adapter gives a new value.
Updates(t, cols, r) ==
    { c \in Range(cols) : t[c][r] # None /\ ~is_token(t[c][r]) }

\* UPDATE ... SET c = token, ... WHERE id = row_id
UpdateRow(t, cols, r) ==
    [ c \in DOMAIN t |->
        IF c \in Updates(t, cols, r)
        THEN [ t[c] EXCEPT ![r] = generate_token(t[c][r]) ]
        ELSE t[c] ]

\* An exception reaches "except Exception" of process.
RMRaise(exc) ==
    /\ error' = exc
    /\ pc' = "rm_except"

\* The connection when its with block is left: the psycopg2 connection ends
\* the transaction and stays open, the Databricks connection is closed.
AfterWith == IF manager.platform = "postgres" THEN "open" ELSE "closed"

\* The connection when process() is left: a connection that was never closed
\* is open until the interpreter collects it, which may be at once or later.
AfterProcess == IF conn = "open" THEN { "open", "none" } ELSE { "none" }

\* An exception leaves "with connect(...)": psycopg2 rolls the transaction
\* back; Databricks has no transaction, every statement already took effect.
RMAbort(exc) ==
    /\ RMRaise(exc)
    /\ dirty' = (tx # db)
    /\ tx' = db
    /\ conn' = AfterWith
    /\ UNCHANGED session

\* What process gave its caller.
RMOutcome(raised) ==
    [ status     |-> IF raised = NoError THEN "returned" ELSE "raised",
      dry_run    |-> FALSE,
      columns    |-> columns,
      total_rows |-> updated_rows,
      per_column |-> << >>,
      error      |-> error,
      raised     |-> raised,
      commits    |-> commits,
      dirty      |-> dirty,
      run        |-> calls ]

RunStatus(status, updated, skipped, message) ==
    [ run_id |-> calls, status |-> status, columns |-> columns,
      rows_updated |-> updated, rows_skipped |-> skipped, message |-> message ]

\* process(): run_id, started_at, detect and sort.
RMBegin ==
    /\ service = "runmanager"
    /\ pc = "idle"
    /\ calls < callBudget
    /\ calls' = calls + 1
    /\ columns' = sorted(detect)
    /\ rows' = << >>
    /\ updated_rows' = 0
    /\ skipped_rows' = 0
    /\ error' = NoError
    /\ commits' = 0
    /\ dirty' = FALSE
    /\ pre' = db
    /\ prev' = (IF last.status = "none" THEN prev ELSE last)
    /\ last' = NoCall
    /\ pc' = "rm_execute"
    /\ tagOps' = NoTagOps
    /\ UNCHANGED << db, tx, conn, session, args, colIdx, per_column, total_rows,
                    rows_to_update, faults, last_tokenization_run, tags, fieldTags,
                    codecVars, setupVars, actVars >>

\* _execute_tokenization: the dispatch on the platform, and connect().
RMExecute ==
    /\ pc = "rm_execute"
    /\ IF columns = << >>
       THEN /\ pc' = "rm_record"
            /\ UNCHANGED << conn, session, error, faults >>
       ELSE IF manager.platform \notin { "postgres", "databricks" } \/ ~manager.conn_str
            THEN /\ RMRaise("RuntimeError")
                 /\ UNCHANGED << conn, session, faults >>
            ELSE \/ /\ conn' = "open"
                    /\ session' = [ user      |-> IF manager.platform = "postgres"
                                                  THEN "PG_CONN_STR" ELSE "DBX_JDBC_URL",
                                    opened_in |-> calls ]
                    /\ pc' = "rm_select"
                    /\ UNCHANGED << error, faults >>
                 \/ /\ Fault
                    /\ RMRaise("OperationalError")
                    /\ UNCHANGED << conn, session >>
    /\ UNCHANGED << db, tx, args, colIdx, per_column, total_rows, rows_to_update,
                    calls, commits, pre, dirty, last, prev,
                    codecVars, setupVars, actVars, rmVars >>

\* tokenize_table: the SELECT of the candidate rows.
RMSelect ==
    /\ pc = "rm_select"
    /\ \/ /\ rows' \in Fetch(tx, columns, manager.platform, manager.batch_limit)
          /\ pc' = "rm_rows"
          /\ UNCHANGED << tx, conn, session, error, dirty, faults >>
       \/ /\ Fault
          /\ RMAbort("OperationalError")
          /\ UNCHANGED rows
    /\ UNCHANGED << db, args, colIdx, per_column, total_rows, rows_to_update,
                    calls, commits, pre, last, prev, columns, updated_rows,
                    skipped_rows, last_tokenization_run, tags, fieldTags, tagOps,
                    codecVars, setupVars, actVars >>

\* tokenize_table: one pass of "for row in rows".
RMUpdateRow ==
    /\ pc = "rm_rows"
    /\ rows # << >>
    /\ LET r == Head(rows)
       IN  IF Updates(tx, columns, r) = { }
           THEN /\ skipped_rows' = skipped_rows + 1
                /\ rows' = Tail(rows)
                /\ UNCHANGED << db, tx, conn, session, pc, error, dirty, faults, updated_rows >>
           ELSE \/ /\ tx' = UpdateRow(tx, columns, r)
                   /\ db' = (IF manager.platform = "postgres" THEN db
                             ELSE UpdateRow(tx, columns, r))
                   /\ updated_rows' = updated_rows + 1
                   /\ rows' = Tail(rows)
                   /\ UNCHANGED << conn, session, pc, error, dirty, faults, skipped_rows >>
                \/ /\ Fault
                   /\ RMAbort("OperationalError")
                   /\ UNCHANGED << db, rows, updated_rows, skipped_rows >>
    /\ UNCHANGED << args, colIdx, per_column, total_rows, rows_to_update,
                    calls, commits, pre, last, prev, columns,
                    last_tokenization_run, tags, fieldTags, tagOps, codecVars, setupVars, actVars >>

\* tokenize_table: connection.commit() and the return of the result.  The
\* Databricks connector's commit does nothing.
RMCommit ==
    /\ pc = "rm_rows"
    /\ rows = << >>
    /\ \/ /\ db' = tx
          /\ commits' = commits + 1
          /\ conn' = AfterWith
          /\ pc' = "rm_record"
          /\ UNCHANGED << tx, session, error, dirty, faults >>
       \/ /\ manager.platform = "postgres"
          /\ Fault
          /\ RMAbort("OperationalError")
          /\ UNCHANGED << db, commits >>
    /\ UNCHANGED << args, colIdx, per_column, total_rows, rows_to_update,
                    calls, pre, last, prev, codecVars, setupVars, actVars, rmVars >>

\* process: the SUCCESS RunStatus and _record_status.
RMRecordSuccess ==
    /\ pc = "rm_record"
    /\ \/ /\ last_tokenization_run' =
                RunStatus("SUCCESS", updated_rows, skipped_rows,
                          IF columns = << >> THEN "No PII columns detected"
                                             ELSE "Tokenised columns")
          /\ pc' = "rm_finalise"
          /\ UNCHANGED << error, faults >>
       \/ /\ Fault
          /\ RMRaise("CatalogError")
          /\ UNCHANGED last_tokenization_run
    /\ UNCHANGED << db, tx, conn, session, args, colIdx, per_column, total_rows,
                    rows_to_update, calls, commits, pre, dirty, last, prev,
                    columns, rows, updated_rows, skipped_rows, tags, fieldTags, tagOps,
                    codecVars, setupVars, actVars >>

\* A tag write: add_tag or remove_tag of one tag on the dataset (target << >>)
\* or on one of its fields.
TagOp(op, target, tag) == [ op |-> op, target |-> target, tag |-> tag ]

\* A finalisation that leaves the fields' run tags in place.
FinaliseKeepingFieldRunTags(cols, ftags) ==
    { TagOp("remove", << >>, RUN_TAG_URN), TagOp("remove", << >>, STATUS_FAILED_TAG),
      TagOp("add", << >>, DONE_TAG_URN), TagOp("add", << >>, STATUS_SUCCESS_TAG) }
    \cup { TagOp("add", f, FIELD_TOKENIZED_TAG) :
             f \in { g \in DatasetFields : _field_path_to_column(g) \in Range(cols) } }

\* The tag writes of _finalise_success: the dataset's four, then for every
\* schema field the tokenized tag when its column was tokenized and the
\* removal of the run tag when the field carried it.  (The second loop finds
\* every column's field already processed and writes nothing.)
_finalise_success(cols, ftags) ==
    { TagOp("remove", << >>, RUN_TAG_URN), TagOp("remove", << >>, STATUS_FAILED_TAG),
      TagOp("add", << >>, DONE_TAG_URN), TagOp("add", << >>, STATUS_SUCCESS_TAG) }
    \cup { TagOp("add", f, FIELD_TOKENIZED_TAG) :
             f \in { g \in DatasetFields : _field_path_to_column(g) \in Range(cols) } }
    \cup { TagOp("remove", f, RUN_TAG_URN) :
             f \in { g \in DatasetFields : RUN_TAG_URN \in ftags[g] } }

\* The tag writes of _mark_failure.
_mark_failure ==
    { TagOp("remove", << >>, STATUS_SUCCESS_TAG), TagOp("add", << >>, STATUS_FAILED_TAG) }

\* The tags of one target once the catalog has applied the writes ops.
Tagged(current, target, ops) ==
    (current \ { o.tag : o \in { x \in ops : x.target = target /\ x.op = "remove" } })
        \cup { o.tag : o \in { x \in ops : x.target = target /\ x.op = "add" } }

\* ensure_tags is best effort: a write the catalog refuses is logged and
\* dropped.  The catalog applies the others.
ensure_tags(ops) ==
    \E failed \in SUBSET ops :
      /\ Cardinality(failed) <= MaxFaults - faults
      /\ faults' = faults + Cardinality(failed)
      /\ tags' = Tagged(tags, << >>, ops \ failed)
      /\ fieldTags' = [ f \in FieldPaths |-> Tagged(fieldTags[f], f, ops \ failed) ]
      /\ tagOps' = [ issued |-> ops, refused |-> failed ]

\* process: _finalise_success and the return.
RMFinaliseSuccess ==
    /\ pc = "rm_finalise"
    /\ ensure_tags(_finalise_success(columns, fieldTags))
    /\ last' = RMOutcome(NoError)
    /\ pc' = "idle"
    /\ conn' \in AfterProcess
    /\ UNCHANGED << db, tx, session, args, colIdx, per_column, total_rows,
                    rows_to_update, error, calls, commits, pre, dirty, prev, columns,
                    rows, updated_rows, skipped_rows, last_tokenization_run,
                    codecVars, setupVars, actVars >>

\* process: "except Exception": the FAILED RunStatus, _record_status and
\* _mark_failure.  Nothing is raised again unless _record_status itself fails.
RMExcept ==
    /\ pc = "rm_except"
    /\ \/ /\ last_tokenization_run' = RunStatus("FAILED", 0, 0, error)
          /\ ensure_tags(_mark_failure)
          /\ last' = RMOutcome(NoError)
       \/ /\ Fault
          /\ last' = RMOutcome("CatalogError")
          /\ UNCHANGED << last_tokenization_run, tags, fieldTags, tagOps >>
    /\ pc' = "idle"
    /\ conn' \in AfterProcess
    /\ UNCHANGED << db, tx, session, args, colIdx, per_column, total_rows,
                    rows_to_update, error, calls, commits, pre, dirty, prev, columns,
                    rows, updated_rows, skipped_rows, codecVars, setupVars, actVars >>

RunManagerStep ==
    \/ RMExecute
    \/ RMSelect
    \/ RMUpdateRow
    \/ RMCommit
    \/ RMRecordSuccess
    \/ RMFinaliseSuccess
    \/ RMExcept

\* --------------------------------------------------------- specification
ExecutorConfigs == { c \in Configs : ~c.dry_run /\ c.max_columns = << >> }

InitExec ==
    /\ CodecParked
    /\ \E table \in Tables : Parked(table)
    /\ service = "executor"
    /\ cfg \in ExecutorConfigs
    /\ inColumns \in ColumnLists
    /\ callBudget = MaxCalls
    /\ manager = NoManager
    /\ fieldTags = NoFieldTags
    /\ racers = NoRacers
    /\ evalCall = NoEvalCall
    /\ clf = NoClassifier
    /\ ToolsParked

NextExec ==
    \/ ExecBegin
    \/ ExecutorStep
    \/ ExecReturn

\* Direct callers of PostgresExecutor.tokenize.
SpecExec == InitExec /\ [][NextExec]_vars

InitAction ==
    /\ service = "action"
    /\ cfg \in Configs
    /\ inColumns \in FieldLists
    /\ manager = NoManager
    /\ fieldTags = NoFieldTags
    /\ racers = NoRacers
    /\ evalCall = NoEvalCall
    /\ clf = NoClassifier
    /\ ToolsParked

InitRunManager ==
    /\ service = "runmanager"
    /\ cfg = DefaultConfig
    /\ inColumns \in TextFieldLists
    /\ manager \in Managers
    /\ fieldTags \in IF manager.fields THEN FieldTagStates ELSE { NoFieldTags }
    /\ racers = NoRacers
    /\ evalCall = NoEvalCall
    /\ clf = NoClassifier
    /\ ToolsParked

Init ==
    /\ CodecParked
    /\ \E table \in Tables : Parked(table)
    /\ InitAction \/ InitRunManager
    /\ callBudget = MaxRuns

Next ==
    \/ ActBegin
    \/ ExecutorStep
    \/ ActComplete
    \/ RMBegin
    \/ RunManagerStep

\* The two coordinators: TokenizeAction with its PostgresExecutor, RunManager.
Spec == Init /\ [][Next]_vars

\* TokenizeAction alone, run after run on one dataset with two PII fields.
\* The runtime calls act() on its own thread and every statement and emit
\* returns or raises: a call that has begun keeps taking steps until act()
\* is left.  The token encoding does not enter the run lifecycle, so the
\* base64 encoding stands for both.
InitLifecycle ==
    /\ CodecParked
    /\ Parked(CHOOSE t \in Tables : t.email[1] = << >>)
    /\ InitAction
    /\ cfg.use_base64_tokens
    /\ inColumns = << << "email" >>, << "phone" >> >>
    /\ callBudget = MaxCalls

NextLifecycle ==
    \/ ActBegin
    \/ ExecutorStep
    \/ ActComplete

SpecLifecycle ==
    /\ InitLifecycle
    /\ [][NextLifecycle]_vars
    /\ WF_vars(ExecutorStep \/ ActComplete)

\* RunManager alone on a Postgres dataset, poll after poll.
InitRerun ==
    /\ CodecParked
    /\ \E table \in Tables : Parked(table)
    /\ InitRunManager
    /\ manager.platform = "postgres"
    /\ manager.conn_str
    /\ callBudget = MaxCalls

NextRerun ==
    \/ RMBegin
    \/ RunManagerStep

SpecRerun == InitRerun /\ [][NextRerun]_vars

\* ------------------------------------------- two concurrent tokenize calls
\* Two TokenizeAction workers (or two callers) run PostgresExecutor.tokenize
\* on the same (tenant, table) at once, each on its own connection.  The
\* server runs both transactions at READ COMMITTED, the default level, which
\* connection() does not change: a statement sees the committed table and
\* the writes of its own transaction; SELECT takes no row lock and waits for
\* none; UPDATE locks the rows it changes until its transaction ends, waits
\* for a row another transaction holds, and then looks at that row again.
\* The UPDATE is taken as one step that starts once no row it matches is
\* held by the other run.
RacerStart(table) ==
    [ pc |-> "idle", colIdx |-> 1, per_column |-> << >>, total_rows |-> 0,
      rows_to_update |-> 0, tx |-> table, locked |-> { }, commits |-> 0,
      error |-> NoError ]

Other(p) == CHOOSE q \in Runs : q # p

\* The table as a statement of run p sees it.
View(p) ==
    [ c \in DOMAIN db |->
        [ r \in Rows |-> IF r \in racers[p].locked THEN racers[p].tx[c][r]
                                                    ELSE db[c][r] ] ]

RaceColumn(p) == _field_path_to_column(inColumns[racers[p].colIdx])
RaceLoopHead(i) == IF i > Len(inColumns) THEN "finish" ELSE "lookup"

\* Only racers changes (and db, where an action says so).
RaceFrame ==
    UNCHANGED << codecVars, service, cfg, inColumns, callBudget, manager, evalCall, clf,
                 toolVars, tx, conn,
                 session, pc, args, colIdx, per_column, total_rows, rows_to_update,
                 error, calls, commits, pre, dirty, last, prev, actVars, rmVars >>

RaceRaise(p, exc) ==
    /\ Fault
    /\ racers' = [ racers EXCEPT ![p].pc = "except", ![p].error = exc ]

\* tokenize() is entered and the with block is reached: the connection is
\* open, the session is set up and autocommit is off.
RaceEnter(p) ==
    /\ service = "race"
    /\ racers[p].pc = "idle"
    /\ racers' = [ racers EXCEPT ![p].pc = RaceLoopHead(1) ]
    /\ UNCHANGED << db, faults >>
    /\ RaceFrame

\* _is_textual_column and the non-textual branch of the loop.
RaceTypeLookup(p) ==
    /\ racers[p].pc = "lookup"
    /\ \/ RaceRaise(p, "OperationalError")
       \/ /\ UNCHANGED faults
          /\ LET me == racers[p]
                 info == _is_textual_column(RaceColumn(p))
             IN  racers' =
                   IF ~info.textual
                   THEN [ racers EXCEPT
                            ![p].per_column = Append(me.per_column,
                                Plan(inColumns[me.colIdx], 0, info.data_type)),
                            ![p].colIdx = me.colIdx + 1,
                            ![p].pc = RaceLoopHead(me.colIdx + 1) ]
                   ELSE [ racers EXCEPT ![p].pc = "count" ]
    /\ UNCHANGED db
    /\ RaceFrame

\* A count that first takes a lock on the table which the other run's
\* pending updates hold.
RaceCountUnderLock(p) ==
    /\ racers[p].pc = "count"
    /\ racers[Other(p)].locked = { }
    /\ racers' = [ racers EXCEPT ![p].pc = "update" ]
    /\ UNCHANGED << db, faults >>
    /\ RaceFrame

\* _count_rows_to_tokenize: a plain SELECT COUNT(*); total_rows += the count;
\* a zero count appends its plan at once.
RaceCount(p) ==
    /\ racers[p].pc = "count"
    /\ \/ RaceRaise(p, "OperationalError")
       \/ /\ UNCHANGED faults
          /\ LET me == racers[p]
                 n == _count_rows_to_tokenize(View(p), RaceColumn(p), regex_token_pattern)
             IN  racers' =
                   IF n > 0
                   THEN [ racers EXCEPT ![p].rows_to_update = n,
                                        ![p].total_rows = me.total_rows + n,
                                        ![p].pc = "update" ]
                   ELSE [ racers EXCEPT
                            ![p].rows_to_update = n,
                            ![p].per_column = Append(me.per_column,
                                Plan(inColumns[me.colIdx], n,
                                     _is_textual_column(RaceColumn(p)).data_type)),
                            ![p].colIdx = me.colIdx + 1,
                            ![p].pc = RaceLoopHead(me.colIdx + 1) ]
    /\ UNCHANGED db
    /\ RaceFrame

\* The rows the UPDATE of run p matches.
RaceMatches(p) ==
    { r \in Rows : NeedsToken(View(p)[RaceColumn(p)][r], regex_token_pattern) }

\* _execute_update, the correction of the totals, and the plan of the column.
RaceUpdate(p) ==
    /\ racers[p].pc = "update"
    /\ \/ /\ ~cfg.dry_run
          /\ RaceRaise(p, "OperationalError")
       \/ /\ UNCHANGED faults
          /\ cfg.dry_run \/ RaceMatches(p) \cap racers[Other(p)].locked = { }
          /\ LET me == racers[p]
                 u == _execute_update(View(p), RaceColumn(p), regex_token_pattern,
                                      cfg.use_base64_tokens, cfg.dry_run)
                 n == IF cfg.dry_run THEN me.rows_to_update ELSE u.rowcount
             IN  racers' =
                   [ racers EXCEPT
                       ![p].tx = u.table,
                       ![p].locked = IF cfg.dry_run THEN me.locked
                                     ELSE me.locked \cup RaceMatches(p),
                       ![p].total_rows = IF cfg.dry_run THEN me.total_rows
                                         ELSE me.total_rows - me.rows_to_update + u.rowcount,
                       ![p].rows_to_update = n,
                       ![p].per_column = Append(me.per_column,
                           Plan(inColumns[me.colIdx], n,
                                _is_textual_column(RaceColumn(p)).data_type)),
                       ![p].colIdx = me.colIdx + 1,
                       ![p].pc = RaceLoopHead(me.colIdx + 1) ]
    /\ UNCHANGED db
    /\ RaceFrame

\* After the loop: conn.rollback() in a dry run, conn.commit() otherwise.
\* Either ends the transaction and releases its row locks.
RaceFinish(p) ==
    /\ racers[p].pc = "finish"
    /\ \/ /\ RaceRaise(p, "OperationalError")
          /\ UNCHANGED db
       \/ /\ UNCHANGED faults
          /\ IF cfg.dry_run
             THEN /\ racers' = [ racers EXCEPT ![p].locked = { }, ![p].pc = "close" ]
                  /\ UNCHANGED db
             ELSE /\ db' = View(p)
                  /\ racers' = [ racers EXCEPT ![p].locked = { }, ![p].pc = "close",
                                               ![p].commits = racers[p].commits + 1 ]
    /\ RaceFrame

\* except Exception: conn.rollback(); raise.
RaceExcept(p) ==
    /\ racers[p].pc = "except"
    /\ racers' = [ racers EXCEPT ![p].locked = { }, ![p].pc = "close" ]
    /\ UNCHANGED << db, faults >>
    /\ RaceFrame

\* finally: conn.close(), and tokenize returns or raises.
RaceClose(p) ==
    /\ racers[p].pc = "close"
    /\ racers' = [ racers EXCEPT ![p].pc = "done" ]
    /\ UNCHANGED << db, faults >>
    /\ RaceFrame

InitRace ==
    /\ CodecParked
    /\ \E table \in Tables :
         /\ Parked(table)
         /\ racers = [ p \in Runs |-> RacerStart(table) ]
    /\ evalCall = NoEvalCall
    /\ clf = NoClassifier
    /\ ToolsParked
    /\ service = "race"
    /\ cfg \in { c \in Configs : c.max_columns = << >> /\ TargetTenant \in c.tenants }
    /\ inColumns \in FieldLists \ { << >> }
    /\ callBudget = 0
    /\ manager = NoManager
    /\ fieldTags = NoFieldTags

NextRace ==
    \E p \in Runs :
      \/ RaceEnter(p)
      \/ RaceTypeLookup(p)
      \/ RaceCount(p)
      \/ RaceUpdate(p)
      \/ RaceFinish(p)
      \/ RaceExcept(p)
      \/ RaceClose(p)

\* Two runs triggered at once on the same (tenant, table).
SpecRace == InitRace /\ [][NextRace]_vars

\* ------------------------------------------------- pii-classifier: rules
\* Confidences, weights and ratios are decimal fractions in the rules file;
\* the model counts them in tenths (6 is 0.6, 10 is 1.0), exactly.
\* str.lower() on ASCII text.
LowerCase(text) ==
    [ i \in 1..Len(text) |->
        IF text[i] \in Range(Upper) THEN Lower[IndexOf(text[i], Upper)] ELSE text[i] ]

\* str.strip(): leading and trailing blanks removed.
RECURSIVE StripLeft(_)
StripLeft(v) == IF Len(v) > 0 /\ Head(v) = " " THEN StripLeft(Tail(v)) ELSE v
RECURSIVE StripRight(_)
StripRight(v) ==
    IF Len(v) > 0 /\ v[Len(v)] = " " THEN StripRight(SubSeq(v, 1, Len(v) - 1)) ELSE v
Strip(v) == StripRight(StripLeft(v))

\* pattern.search(text) for the patterns of the model's rules.  A name
\* pattern is a literal, found anywhere in the text; the one value pattern,
\* "email", is .+@.+ ; NoPattern is value_pattern None.
NoPattern == ""
SearchName(pattern, text) ==
    \E i \in 1..(Len(text) - Len(pattern) + 1) :
       SubSeq(text, i, i + Len(pattern) - 1) = pattern
SearchValue(pattern, text) ==
    pattern = "email" /\ \E i \in 2..(Len(text) - 1) : text[i] = "@"

\* Entries of the rules file, as _load_rule reads them (defaults filled in).
DefaultRule ==
    [ name |-> "pii_email", tag |-> "urn:li:tag:pii-email",
      name_patterns |-> { << "e", "m" >> }, value_pattern |-> "email",
      min_confidence |-> 6, name_weight |-> 5, value_weight |-> 5,
      value_match_ratio |-> 6 ]

RawRules ==
    { DefaultRule,
      [ DefaultRule EXCEPT !.name = "pii_contact", !.tag = "urn:li:tag:pii-contact",
                           !.name_weight = 8, !.value_weight = 8 ],
      [ DefaultRule EXCEPT !.name = "pii_mail_value", !.tag = "urn:li:tag:pii-mail",
                           !.name_weight = -5, !.value_weight = 10 ],
      [ DefaultRule EXCEPT !.name = "pii_name", !.tag = "urn:li:tag:pii-name",
                           !.name_patterns = { << "n", "m" >>, << "e", "m" >> },
                           !.value_pattern = NoPattern ],
      [ DefaultRule EXCEPT !.name = "pii_strict", !.tag = "urn:li:tag:pii-strict",
                           !.name_patterns = { << "n", "m" >> },
                           !.value_pattern = NoPattern, !.min_confidence = 15 ],
      [ DefaultRule EXCEPT !.name = "weightless", !.name_weight = 0, !.value_weight = 0 ],
      [ DefaultRule EXCEPT !.name = "patternless", !.name_patterns = { } ] }

\* _load_rule raises ValueError for a rule without name pattern or without
\* positive weight total; load_rules then fails and nothing is loaded.
Accepted(raw) == raw.name_patterns # { } /\ raw.name_weight + raw.value_weight > 0

LoadedRules == { raw \in RawRules : Accepted(raw) }

\* The samples that count: not None and not blank.
Usable(samples) == SelectSeq(samples, LAMBDA v : v # None /\ Strip(v) # << >>)

Min(a, b) == IF a <= b THEN a ELSE b
Max(a, b) == IF a >= b THEN a ELSE b

\* A score clamped on both sides, to 0..1.
ClampBoth(score) == Max(0, Min(score, 10))

\* score = min(score, 1.0)
Clamp(score) == Min(score, 10)

\* Rule.evaluate.  value_ratio is kept as the pair << matches, total >>
\* (<< 0, 1 >> is the 0.0 of an empty sample).
evaluate(rule, column_name, samples) ==
    LET normalized_name == LowerCase(column_name)
        name_hit == \E pattern \in rule.name_patterns : SearchName(pattern, normalized_name)
        usable  == Usable(samples)
        total   == Len(usable)
        matches == IF rule.value_pattern = NoPattern THEN 0
                   ELSE Len(SelectSeq(usable,
                                      LAMBDA v : SearchValue(rule.value_pattern, Strip(v))))
        ratio_reached == IF total > 0 THEN matches * 10 >= rule.value_match_ratio * total
                                      ELSE 0 >= rule.value_match_ratio
        named == IF name_hit THEN rule.name_weight ELSE 0
        score == IF rule.value_pattern = NoPattern /\ name_hit
                 THEN Max(named, rule.min_confidence)
                 ELSE IF rule.value_pattern # NoPattern /\ ratio_reached
                      THEN named + rule.value_weight
                      ELSE named
    IN  [ rule             |-> rule,
          name_match       |-> name_hit,
          value_ratio      |-> IF total > 0 THEN << matches, total >> ELSE << 0, 1 >>,
          confidence       |-> Clamp(score),
          evaluated_values |-> total ]

\* RuleEvaluation.is_match
is_match(evaluation) == evaluation.confidence >= evaluation.rule.min_confidence

\* _evaluate returns None.
NoEvaluation == << >>

\* A comparison that lets a later rule win a tie.
BetterOrEqual(evaluation, best) == evaluation.confidence >= best.confidence

\* evaluation.confidence > best.confidence
Better(evaluation, best) == evaluation.confidence > best.confidence

\* A sample check that lets every column through.
AlwaysEnough(filtered_samples, min_value_samples) == TRUE

\* not (len(filtered_samples) < min_value_samples)
EnoughSamples(filtered_samples, min_value_samples) ==
    ~(Len(filtered_samples) < min_value_samples)

\* The loop of _evaluate over the rules from index i on.
RECURSIVE BestFrom(_, _, _, _, _)
BestFrom(rules, i, best, column_name, filtered_samples) ==
    IF i > Len(rules) THEN best
    ELSE LET evaluation == evaluate(rules[i], column_name, filtered_samples)
         IN  BestFrom(rules, i + 1,
                      IF is_match(evaluation)
                         /\ (best = NoEvaluation \/ Better(evaluation, best))
                      THEN evaluation ELSE best,
                      column_name, filtered_samples)

\* PIIClassifier._evaluate
_evaluate(rules, column_name, samples, min_value_samples) ==
    LET filtered_samples == Usable(samples)
    IN  IF ~EnoughSamples(filtered_samples, min_value_samples) THEN NoEvaluation
        ELSE BestFrom(rules, 1, NoEvaluation, column_name, filtered_samples)

\* Inputs of the evaluation calls.
ColumnNames == { << "e", "m" >>, << "E", "M" >>, << "n", "m" >>, << "i", "d" >> }
SampleValues == { << "a", "@", "b" >>, << " ", "a", "@", "b" >>, << "x" >>, << " " >>, None }
SampleLists == SeqsUpTo(SampleValues, MaxSamples)
RuleLists == { q \in SeqsUpTo(LoadedRules, MaxRules) : Distinct(q) }
MinValueSamples == 0..MaxSamples

\* One caller with a rules list, a column name and a sample: it calls
\* Rule.evaluate of the first rule and PIIClassifier._evaluate.
InitRules ==
    /\ CodecParked
    /\ Parked(CHOOSE t \in Tables : TRUE)
    /\ service = "rules"
    /\ cfg = DefaultConfig
    /\ inColumns = << >>
    /\ callBudget = 0
    /\ manager = NoManager
    /\ fieldTags = NoFieldTags
    /\ racers = NoRacers
    /\ clf = NoClassifier
    /\ ToolsParked
    /\ \E rules \in RuleLists \ { << >> }, column_name \in ColumnNames,
          samples \in SampleLists, min_value_samples \in MinValueSamples :
         evalCall = [ rules |-> rules, column_name |-> column_name, samples |-> samples,
                      min_value_samples |-> min_value_samples,
                      ops |-> { }, evaluation |-> NoEvaluation, best |-> NoEvaluation ]

RulesFrame == UNCHANGED << codecVars, service, cfg, inColumns, callBudget, manager, racers,
                           clf, toolVars, execVars, actVars, rmVars >>

RuleEvaluate ==
    /\ service = "rules"
    /\ "evaluate" \notin evalCall.ops
    /\ evalCall' = [ evalCall EXCEPT
                       !.ops = @ \cup { "evaluate" },
                       !.evaluation = evaluate(evalCall.rules[1], evalCall.column_name,
                                               evalCall.samples) ]
    /\ RulesFrame

ClassifierEvaluate ==
    /\ service = "rules"
    /\ "_evaluate" \notin evalCall.ops
    /\ evalCall' = [ evalCall EXCEPT
                       !.ops = @ \cup { "_evaluate" },
                       !.best = _evaluate(evalCall.rules, evalCall.column_name,
                                          evalCall.samples, evalCall.min_value_samples) ]
    /\ RulesFrame

NextRules ==
    \/ RuleEvaluate
    \/ ClassifierEvaluate

\* Rule.evaluate and PIIClassifier._evaluate as functions of their inputs.
SpecRules == InitRules /\ [][NextRules]_vars

\* --------------------------------------------- pii-classifier: the run
\* The columns iter_columns yields for the sampled schema, in ordinal order,
\* each with the cells of the column (None is SQL NULL).
ClassifierTables ==
    { << [ name |-> << "e", "m" >>, values |-> << << "a", "@", "b" >>, << " ", "a", "@", "b" >> >> ],
         [ name |-> << "n", "m" >>, values |-> << << "x" >> >> ] >>,
      << [ name |-> << "E", "M" >>, values |-> << << "a", "@", "b" >>, << " " >> >> ],
         [ name |-> << "i", "d" >>, values |-> << << "x" >>, << "x" >> >> ] >>,
      << [ name |-> << "n", "m" >>, values |-> << >> ],
         [ name |-> << "e", "m" >>, values |-> << None, << "a", "@", "b" >> >> ] >> }

KEEP_TAG == "urn:li:tag:reviewed"

\* PostgresSampler.sample_values: SELECT col ... WHERE col IS NOT NULL LIMIT n
sample_values(column, limit) ==
    LET found == SelectSeq(column.values, LAMBDA v : v # None)
    IN  SubSeq(found, 1, Min(limit, Len(found)))

InitClassifier ==
    /\ CodecParked
    /\ Parked(CHOOSE t \in Tables : TRUE)
    /\ service = "classifier"
    /\ cfg = DefaultConfig
    /\ inColumns = << >>
    /\ callBudget = MaxCalls
    /\ manager = NoManager
    /\ fieldTags = NoFieldTags
    /\ racers = NoRacers
    /\ evalCall = NoEvalCall
    /\ ToolsParked
    /\ \E rules \in RuleLists, table \in ClassifierTables,
          min_value_samples \in MinValueSamples, dry_run \in BOOLEAN,
          tagged \in { { }, { KEEP_TAG } } :
         clf = [ rules |-> rules, columns |-> table, sample_limit |-> MaxSamples,
                 min_value_samples |-> min_value_samples, dry_run |-> dry_run,
                 tags0 |-> [ i \in 1..Len(table) |-> tagged ],
                 tags |-> [ i \in 1..Len(table) |-> tagged ],
                 defined |-> { }, pc |-> "idle", calls |-> 0, idx |-> 1,
                 conn |-> "none", evaluation |-> NoEvaluation, matches |-> << >>,
                 asked |-> { }, error |-> NoError, failed_at |-> "", raised |-> NoError ]

ClassifierFrame ==
    UNCHANGED << codecVars, service, cfg, inColumns, callBudget, manager, racers, evalCall,
                 toolVars, db, tx, conn, session, pc, args, colIdx, per_column,
                 total_rows, rows_to_update, error, calls, commits, pre, dirty, last,
                 prev, actVars, rmVars >>

\* for column in sampler.iter_columns(): the next column, or the end of the
\* with block.
ClassifierLoop(i) == IF i > Len(clf.columns) THEN "exit" ELSE "sample"

\* run() is called; without rules it returns [] at once.
ClassifierBegin ==
    /\ service = "classifier"
    /\ clf.pc \in { "idle", "done" }
    /\ clf.calls < callBudget
    /\ clf' = [ clf EXCEPT !.calls = @ + 1, !.matches = << >>, !.asked = { },
                           !.error = NoError, !.failed_at = "", !.raised = NoError,
                           !.idx = 1, !.evaluation = NoEvaluation, !.conn = "none",
                           !.pc = IF clf.rules = << >> THEN "done" ELSE "define" ]
    /\ UNCHANGED faults
    /\ ClassifierFrame

\* ensure_tag_definitions: one emit per rule, none in a dry run.
ClassifierDefineTags ==
    /\ clf.pc = "define"
    /\ \/ /\ UNCHANGED faults
          /\ clf' = [ clf EXCEPT
                        !.defined = IF clf.dry_run THEN @
                                    ELSE @ \cup { clf.rules[i].tag : i \in 1..Len(clf.rules) },
                        !.pc = "connect" ]
       \/ /\ ~clf.dry_run
          /\ Fault
          /\ clf' = [ clf EXCEPT !.error = "CatalogError", !.failed_at = "define",
                                 !.raised = "CatalogError", !.pc = "done" ]
    /\ ClassifierFrame

\* with PostgresSampler(...) as sampler: psycopg2.connect in __enter__.
ClassifierConnect ==
    /\ clf.pc = "connect"
    /\ \/ /\ UNCHANGED faults
          /\ clf' = [ clf EXCEPT !.conn = "open", !.pc = "list" ]
       \/ /\ Fault
          /\ clf' = [ clf EXCEPT !.error = "OperationalError", !.failed_at = "connect",
                                 !.raised = "OperationalError", !.pc = "done" ]
    /\ ClassifierFrame

\* iter_columns: list_tables and list_columns before the first column.
ClassifierListColumns ==
    /\ clf.pc = "list"
    /\ \/ /\ UNCHANGED faults
          /\ clf' = [ clf EXCEPT !.idx = 1, !.pc = ClassifierLoop(1) ]
       \/ /\ Fault
          /\ clf' = [ clf EXCEPT !.error = "OperationalError", !.failed_at = "list",
                                 !.pc = "exit" ]
    /\ ClassifierFrame

\* One pass of the loop up to add_field_tag: sample_values, the empty-sample
\* skip, _evaluate, the no-match skip.  Nothing catches what sample_values
\* raises: the exception leaves the with block.
ClassifierSample ==
    /\ clf.pc = "sample"
    /\ \/ /\ UNCHANGED faults
          /\ LET column == clf.columns[clf.idx]
                 samples == sample_values(column, clf.sample_limit)
                 evaluation == _evaluate(clf.rules, column.name, samples,
                                         clf.min_value_samples)
             IN  clf' =
                   IF samples = << >> \/ evaluation = NoEvaluation
                   THEN [ clf EXCEPT !.idx = @ + 1, !.pc = ClassifierLoop(clf.idx + 1) ]
                   ELSE [ clf EXCEPT !.evaluation = evaluation, !.pc = "emit" ]
       \/ /\ Fault
          /\ clf' = [ clf EXCEPT !.error = "OperationalError", !.failed_at = "sample",
                                 !.pc = "exit" ]
    /\ ClassifierFrame

\* DataHubTagEmitter.add_field_tag for the column in hand, and
\* matches.append.  _get_existing_tags answers the empty set when its read
\* fails; the emit replaces the field's tags by existing | {tag}.
ClassifierAddFieldTag ==
    /\ clf.pc = "emit"
    /\ LET tag_urn == clf.evaluation.rule.tag
           next == clf.idx + 1
           Result(emitted) == [ column |-> clf.idx, tag_urn |-> tag_urn,
                                rule_name |-> clf.evaluation.rule.name,
                                confidence |-> clf.evaluation.confidence,
                                was_emitted |-> emitted ]
           Returned(emitted, tags_after) ==
               [ clf EXCEPT !.tags = tags_after,
                            !.asked = @ \cup { clf.idx },
                            !.matches = Append(@, Result(emitted)),
                            !.evaluation = NoEvaluation,
                            !.idx = next, !.pc = ClassifierLoop(next) ]
       IN  \E read_ok \in BOOLEAN :
             LET existing == IF read_ok THEN clf.tags[clf.idx] ELSE { }
             IN  IF tag_urn \in existing \/ clf.dry_run
                 THEN /\ IF read_ok THEN UNCHANGED faults ELSE Fault
                      /\ clf' = Returned(FALSE, clf.tags)
                 ELSE \/ /\ IF read_ok THEN UNCHANGED faults ELSE Fault
                         /\ clf' = Returned(TRUE, [ clf.tags EXCEPT
                                                      ![clf.idx] = existing \cup { tag_urn } ])
                      \/ /\ read_ok
                         /\ Fault
                         /\ clf' = [ clf EXCEPT !.asked = @ \cup { clf.idx },
                                                !.error = "CatalogError",
                                                !.failed_at = "emit", !.pc = "exit" ]
    /\ ClassifierFrame

\* PostgresSampler.__exit__ closes the connection; run returns matches or
\* the exception goes on to the caller.
ClassifierExit ==
    /\ clf.pc = "exit"
    /\ clf' = [ clf EXCEPT !.conn = "closed", !.raised = clf.error, !.pc = "done" ]
    /\ UNCHANGED faults
    /\ ClassifierFrame

NextClassifier ==
    \/ ClassifierBegin
    \/ ClassifierDefineTags
    \/ ClassifierConnect
    \/ ClassifierListColumns
    \/ ClassifierSample
    \/ ClassifierAddFieldTag
    \/ ClassifierExit

\* PIIClassifier.run, run after run on one schema.
SpecClassifier == InitClassifier /\ [][NextClassifier]_vars

\* ------------------------------------------------------------- PiiDetector
\* The letters of a column name or name pattern.
Spell(name) ==
    CASE name = "email"   -> << "e", "m", "a", "i", "l" >>
      [] name = "e_mail"  -> << "e", "_", "m", "a", "i", "l" >>
      [] name = "phone"   -> << "p", "h", "o", "n", "e" >>
      [] name = "mobile"  -> << "m", "o", "b", "i", "l", "e" >>
      [] name = "contact" -> << "c", "o", "n", "t", "a", "c", "t" >>
      [] name = "ssn"     -> << "s", "s", "n" >>
      [] name = "aadhaar" -> << "a", "a", "d", "h", "a", "a", "r" >>
      [] name = "id"      -> << "i", "d" >>
      [] name = "notes"   -> << "n", "o", "t", "e", "s" >>

\* DEFAULT_PATTERN_CONFIG
name_patterns == << "email", "e_mail", "phone", "mobile", "contact", "ssn", "aadhaar" >>
regex_validators == { "email", "phone" }

\* validator.match(str(value)) for the two default validators:
\* email  ^[^@\s]+@[^@\s]+\.[^@\s]+$   phone  ^[+0-9()\-\s]{7,}$
ValidatorMatch(key, value) ==
    LET plain(i, j) == i <= j /\ \A k \in i..j : value[k] \notin { "@", " " }
    IN  IF key = "email"
        THEN \E a, d \in 1..Len(value) :
                /\ value[a] = "@" /\ value[d] = "." /\ a + 1 < d
                /\ plain(1, a - 1) /\ plain(a + 1, d - 1) /\ plain(d + 1, Len(value))
        ELSE /\ Len(value) >= 7
             /\ \A k \in 1..Len(value) :
                   value[k] \in Range(Digits) \cup { "+", "(", ")", "-", " " }

\* The tags the model's fields carry.
PII_EMAIL_TAG == "urn:li:tag:pii.email"
OTHER_TAG == "urn:li:tag:something"

\* _has_pii_tag: some tag ends with one of PII_TAG_SUFFIXES (pii, pii.email,
\* pii.phone, pii.contact, sensitive).
_has_pii_tag(field) == PII_EMAIL_TAG \in field.tags

\* _normalise_field: the column of the first field whose path or column is
\* the given name; None when there is none.
_normalise_field(fields, field_name) ==
    LET hit(i) == \/ fields[i].field_path = field_name
                  \/ << _field_path_to_column(fields[i].field_path) >> = field_name
    IN  IF \E i \in 1..Len(fields) : hit(i)
        THEN LET first == CHOOSE i \in 1..Len(fields) :
                             hit(i) /\ \A j \in 1..(i - 1) : ~hit(j)
             IN  _field_path_to_column(fields[first].field_path)
        ELSE "None"

\* _validate_with_samples: no validator for the pattern, or no samples for
\* the column, or some non-null sample passes the validator.
_validate_with_samples(pattern, column, samples) ==
    \/ pattern \notin regex_validators
    \/ column \notin DOMAIN samples
    \/ samples[column] = << >>
    \/ \E k \in 1..Len(samples[column]) :
          /\ samples[column][k] # None
          /\ ValidatorMatch(pattern, samples[column][k])

\* _heuristic_detection: the columns whose lowered name contains a pattern
\* that the samples do not refute (the loop leaves a column at the first
\* pattern that validates).
_heuristic_detection(fields, samples) ==
    { _field_path_to_column(fields[i].field_path) : i \in
        { k \in 1..Len(fields) :
            LET column == _field_path_to_column(fields[k].field_path)
            IN  \E n \in 1..Len(name_patterns) :
                   /\ SearchName(LowerCase(Spell(name_patterns[n])), LowerCase(Spell(column)))
                   /\ _validate_with_samples(name_patterns[n], column, samples) } }

\* A detector that looks at the tags before the explicit field list.
DetectTagsFirst(fields, explicit_fields, samples) ==
    LET tagged == { _field_path_to_column(fields[i].field_path) :
                      i \in { k \in 1..Len(fields) : _has_pii_tag(fields[k]) } }
        listed == { _normalise_field(fields, explicit_fields[i]) :
                      i \in 1..Len(explicit_fields) }
    IN  IF tagged # { } THEN tagged
        ELSE IF explicit_fields # << >>
        THEN listed \ { "None" }
        ELSE _heuristic_detection(fields, samples)

\* PiiDetector.detect
PiiDetector_detect(fields, explicit_fields, samples) ==
    IF explicit_fields # << >>
    THEN LET listed == { _normalise_field(fields, explicit_fields[i]) :
                           i \in 1..Len(explicit_fields) }
         IN  listed \ { "None" }
    ELSE LET tagged == { _field_path_to_column(fields[i].field_path) :
                           i \in { k \in 1..Len(fields) : _has_pii_tag(fields[k]) } }
         IN  IF tagged # { } THEN tagged
             ELSE _heuristic_detection(fields, samples)

\* Inputs of the detector calls: a dataset's fields with their tags, an
\* explicit field list (None and [] are both false to "if explicit_fields":
\* << >> stands for either), and samples by column.
DetectorTagSets == { { }, { PII_EMAIL_TAG }, { OTHER_TAG } }
DetectorDatasets ==
    UNION { { [ i \in 1..Len(q) |-> [ field_path |-> q[i], tags |-> t[i] ] ]
              : t \in [ 1..Len(q) -> DetectorTagSets ] } : q \in FieldLists }
ExplicitNames == { << "phone" >>, << "contact", "email" >>, << "notes" >> }
ExplicitLists == SeqsUpTo(ExplicitNames, 2)
DetectorSamples ==
    { [ email |-> << >> ],
      [ email |-> << << "a", "@", "b", ".", "c" >> >>, phone |-> << << "x" >> >> ],
      [ email |-> << None, << "a", "@", "b" >> >>,
        phone |-> << << "1", "2", "3", "-", "4", "5", "6" >> >> ] }

InitDetector ==
    /\ CodecParked
    /\ Parked(CHOOSE t \in Tables : TRUE)
    /\ service = "detector"
    /\ cfg = DefaultConfig
    /\ inColumns = << >>
    /\ callBudget = 0
    /\ manager = NoManager
    /\ fieldTags = NoFieldTags
    /\ racers = NoRacers
    /\ evalCall = NoEvalCall
    /\ clf = NoClassifier
    /\ verifyCall = NoVerify
    /\ consumer = NoConsumer
    /\ gql = NoGql
    /\ \E fields \in DetectorDatasets, explicit_fields \in ExplicitLists,
          samples \in DetectorSamples :
         detCall = [ fields |-> fields, explicit_fields |-> explicit_fields,
                     samples |-> samples, done |-> FALSE, columns |-> { } ]

DetectorFrame ==
    UNCHANGED << codecVars, service, cfg, inColumns, callBudget, manager, racers,
                 evalCall, clf, verifyCall, consumer, gql, execVars, actVars, rmVars >>

\* columns = detector.detect(dataset, explicit_fields=..., samples=...)
DetectCall ==
    /\ service = "detector"
    /\ ~detCall.done
    /\ detCall' = [ detCall EXCEPT
                      !.done = TRUE,
                      !.columns = PiiDetector_detect(detCall.fields,
                                      detCall.explicit_fields, detCall.samples) ]
    /\ DetectorFrame

NextDetector == DetectCall

\* PiiDetector.detect as a function of its inputs.
SpecDetector == InitDetector /\ [][NextDetector]_vars


\* ------------------------------------------- verify_poc: run transitions
\* The longest polled state sequence of the model.
MaxStates == 3

\* str.upper() of the state names the model polls.
UpperState(state) == IF state = "running" THEN "RUNNING" ELSE state

\* The walk of the for loop from position i: the error it raises, if any.
RECURSIVE TransitionError(_, _)
TransitionError(states, i) ==
    LET terminal   == { "COMPLETED", "FAILED", "SUCCESS", "SUCCESSFUL" }
        normalized == UpperState(states[i])
    IN  IF i > Len(states) THEN ""
        ELSE IF i = 1 /\ normalized \notin { "RUNNING", "PENDING", "ENQUEUED" }
        THEN "Run did not begin in a pending/running state"
        ELSE IF /\ i > 1
                /\ UpperState(states[i - 1]) = "RUNNING"
                /\ normalized \notin (terminal \cup { "RUNNING" })
        THEN "Invalid transition from RUNNING"
        ELSE TransitionError(states, i + 1)

\* evaluate_run_transitions: error is the message of the VerificationError
\* raised, "" when the call returns {"states": seen, "final": final}.
evaluate_run_transitions(states, expect_success) ==
    LET seen  == [ i \in 1..Len(states) |-> UpperState(states[i]) ]
        final == seen[Len(seen)]
        raise(msg) == [ error |-> msg, states |-> << >>, final |-> "" ]
    IN  IF states = << >> THEN raise("No run states supplied")
        ELSE IF TransitionError(states, 1) # "" THEN raise(TransitionError(states, 1))
        ELSE IF expect_success /\ final \notin { "SUCCESS", "COMPLETED", "SUCCESSFUL" }
        THEN raise("Run did not reach a successful terminal state")
        ELSE IF ~expect_success /\ final \notin { "FAILED", "FAILURE" }
        THEN raise("Negative run did not fail as expected")
        ELSE [ error |-> "", states |-> seen, final |-> final ]

\* The statuses a poll can read from a run record.
PolledStates ==
    { "RUNNING", "running", "PENDING", "ENQUEUED", "COMPLETED", "SUCCESS", "SUCCESSFUL",
      "FAILED", "FAILURE", "UNKNOWN" }

InitVerify ==
    /\ CodecParked
    /\ Parked(CHOOSE t \in Tables : TRUE)
    /\ service = "verify"
    /\ cfg = DefaultConfig
    /\ inColumns = << >>
    /\ callBudget = 0
    /\ manager = NoManager
    /\ fieldTags = NoFieldTags
    /\ racers = NoRacers
    /\ evalCall = NoEvalCall
    /\ clf = NoClassifier
    /\ detCall = NoDetect
    /\ consumer = NoConsumer
    /\ gql = NoGql
    /\ \E states \in SeqsUpTo(PolledStates, MaxStates), expect_success \in BOOLEAN :
         verifyCall = [ states |-> states, expect_success |-> expect_success,
                        done |-> FALSE,
                        result |-> [ error |-> "", states |-> << >>, final |-> "" ] ]

VerifyFrame ==
    UNCHANGED << codecVars, service, cfg, inColumns, callBudget, manager, racers,
                 evalCall, clf, detCall, consumer, gql, execVars, actVars, rmVars >>

\* evaluation = evaluate_run_transitions(states, expect_success=...)
VerifyCall ==
    /\ service = "verify"
    /\ ~verifyCall.done
    /\ verifyCall' = [ verifyCall EXCEPT
                         !.done = TRUE,
                         !.result = evaluate_run_transitions(verifyCall.states,
                                                            verifyCall.expect_success) ]
    /\ VerifyFrame

NextVerify == VerifyCall

\* evaluate_run_transitions as a function of its inputs.
SpecVerify == InitVerify /\ [][NextVerify]_vars

\* ------------------------------------------------------------ MCLConsumer
\* How many polling threads start() may create, and how often the trigger
\* tag is put on one dataset, in a behaviour.
MaxThreads == 2
MaxTriggers == 1

\* list_all_dataset_urns(): the datasets of the catalog, in listing order.
DatasetUrns == << "d1", "d2" >>
Datasets == Range(DatasetUrns)
Threads == 1..MaxThreads

\* A polling thread: where it stands in _run_loop / _poll_once, the urns the
\* for loop has still to visit, the dataset handed to process(), the
\* datasets process() was called for in this poll, and where the exception
\* that ended the poll came from.
NoThread == [ pc |-> "unborn", queue |-> << >>, cur |-> "", processed |-> { }, exc |-> "" ]

\* threading.Thread.is_alive()
is_alive(t) == consumer.threads[t].pc \notin { "unborn", "exited" }

\* dataset_tagged or field_scope: the dataset, or one of its fields, carries
\* RUN_TAG_URN.
Triggered(d) == consumer.run[d] \/ consumer.frun[d]

\* The application starts the consumer once it is constructed; the trigger
\* tag is on some datasets, on the dataset itself or on a field, and the
\* platform of some dataset may be one RunManager does not support.
InitConsumer ==
    /\ CodecParked
    /\ Parked(CHOOSE t \in Tables : TRUE)
    /\ service = "consumer"
    /\ cfg = DefaultConfig
    /\ inColumns = << >>
    /\ callBudget = 0
    /\ manager = NoManager
    /\ fieldTags = NoFieldTags
    /\ racers = NoRacers
    /\ evalCall = NoEvalCall
    /\ clf = NoClassifier
    /\ detCall = NoDetect
    /\ verifyCall = NoVerify
    /\ gql = NoGql
    /\ \E run \in [ Datasets -> BOOLEAN ], frun \in [ Datasets -> BOOLEAN ],
          unsupported \in { { }, { "d1" } } :
         /\ \A d \in Datasets : ~(run[d] /\ frun[d])
         /\ consumer = [ _stop |-> FALSE, _thread |-> 0,
                         threads |-> [ t \in Threads |-> NoThread ],
                         main |-> "idle", last_call |-> "none",
                         run |-> run, frun |-> frun, unsupported |-> unsupported,
                         applied |-> [ d \in Datasets |->
                                         IF run[d] \/ frun[d] THEN 1 ELSE 0 ],
                         successes |-> [ d \in Datasets |-> 0 ] ]

ConsumerFrame ==
    UNCHANGED << codecVars, service, cfg, inColumns, callBudget, manager, racers,
                 evalCall, clf, detCall, verifyCall, gql, db, tx, conn, session, pc,
                 args, colIdx, per_column, total_rows, rows_to_update, error, calls,
                 commits, pre, dirty, last, prev, actVars, rmVars >>

\* start(): nothing when the thread is alive; otherwise clear the stop flag
\* and start a new thread on _run_loop.
ConsumerStart ==
    /\ service = "consumer"
    /\ consumer.main = "idle"
    /\ IF consumer._thread # 0 /\ is_alive(consumer._thread)
       THEN consumer' = [ consumer EXCEPT !.last_call = "start" ]
       ELSE \E t \in Threads :
              /\ consumer.threads[t].pc = "unborn"
              /\ \A u \in 1..(t - 1) : consumer.threads[u].pc # "unborn"
              /\ consumer' = [ consumer EXCEPT
                                 !.last_call = "start", !._stop = FALSE, !._thread = t,
                                 !.threads[t].pc = "test" ]
    /\ UNCHANGED faults
    /\ ConsumerFrame

\* stop(): set the flag; with a thread, go on to join it.
ConsumerStop ==
    /\ service = "consumer"
    /\ consumer.main = "idle"
    /\ consumer.last_call # "none"
    /\ consumer' = [ consumer EXCEPT
                       !._stop = TRUE,
                       !.main = IF consumer._thread # 0 THEN "join" ELSE "idle",
                       !.last_call = "stop" ]
    /\ UNCHANGED faults
    /\ ConsumerFrame

\* self._thread.join(timeout=poll_interval + 5) returns: the thread has
\* ended, or the timeout passed while the thread is inside a run.
ConsumerJoin ==
    /\ service = "consumer"
    /\ consumer.main = "join"
    /\ \/ ~is_alive(consumer._thread)
       \/ consumer.threads[consumer._thread].pc = "process"
    /\ consumer' = [ consumer EXCEPT !.main = "idle" ]
    /\ UNCHANGED faults
    /\ ConsumerFrame

\* _run_loop: while not self._stop.is_set()
LoopTest(t) ==
    /\ consumer.threads[t].pc = "test"
    /\ consumer' = [ consumer EXCEPT
                       !.threads[t].pc = IF consumer._stop THEN "exited" ELSE "poll",
                       !.threads[t].processed = { },
                       !.threads[t].exc = "" ]
    /\ UNCHANGED faults
    /\ ConsumerFrame

\* _poll_once: dataset_urns = self.client.list_all_dataset_urns(); a failure
\* raises into _run_loop, which logs it and waits.
PollList(t) ==
    /\ consumer.threads[t].pc = "poll"
    /\ \/ /\ UNCHANGED faults
          /\ consumer' = [ consumer EXCEPT !.threads[t].pc = "next",
                                           !.threads[t].queue = DatasetUrns ]
       \/ /\ Fault
          /\ consumer' = [ consumer EXCEPT !.threads[t].pc = "wait",
                                           !.threads[t].exc = "list_all_dataset_urns" ]
    /\ ConsumerFrame

\* for urn in dataset_urns: get_dataset, the test of the trigger tag, and the
\* call of run_manager.process.
PollNext(t) ==
    /\ consumer.threads[t].pc = "next"
    /\ LET th == consumer.threads[t]
       IN  IF th.queue = << >>
           THEN /\ UNCHANGED faults
                /\ consumer' = [ consumer EXCEPT !.threads[t].pc = "wait" ]
           ELSE \/ /\ Fault
                   /\ consumer' = [ consumer EXCEPT
                                      !.threads[t].pc = "wait",
                                      !.threads[t].exc = "get_dataset" ]
                \/ /\ UNCHANGED faults
                   /\ IF Triggered(Head(th.queue))
                      THEN consumer' = [ consumer EXCEPT
                                           !.threads[t].pc = "process",
                                           !.threads[t].cur = Head(th.queue),
                                           !.threads[t].processed = @ \cup { Head(th.queue) },
                                           !.threads[t].queue = Tail(th.queue) ]
                      ELSE consumer' = [ consumer EXCEPT
                                           !.threads[t].queue = Tail(th.queue) ]
    /\ ConsumerFrame

\* RunManager.process for the dataset in hand, from its call to its return.
\* The tokenization raises for an unsupported platform and when the database
\* fails; _record_status raises when the catalog refuses the write; the tag
\* writes of ensure_tags are best effort.  With SUCCESS on record,
\* _finalise_success removes the trigger tag from the dataset and from the
\* fields that carry it, unless the catalog refuses that write.  A failure
\* is recorded as FAILED by the except branch and the trigger tag stays; when
\* that record is refused too, the exception leaves process().
PollProcess(t) ==
    /\ consumer.threads[t].pc = "process"
    /\ LET d == consumer.threads[t].cur
           back == [ consumer EXCEPT !.threads[t].pc = "next", !.threads[t].cur = "" ]
       IN  \/ \* SUCCESS recorded, every tag write accepted
              /\ d \notin consumer.unsupported
              /\ UNCHANGED faults
              /\ consumer' = [ back EXCEPT !.run[d] = FALSE, !.frun[d] = FALSE,
                                           !.successes[d] = @ + 1 ]
           \/ \* SUCCESS recorded, the removal of the trigger tag refused
              /\ d \notin consumer.unsupported
              /\ Fault
              /\ consumer' = [ back EXCEPT !.successes[d] = @ + 1 ]
           \/ \* the tokenization or the SUCCESS record fails; FAILED recorded
              /\ IF d \in consumer.unsupported THEN UNCHANGED faults ELSE Fault
              /\ consumer' = back
           \/ \* the tokenization fails and the FAILED record is refused
              /\ d \in consumer.unsupported
              /\ Fault
              /\ consumer' = [ consumer EXCEPT
                                 !.threads[t].pc = "wait", !.threads[t].cur = "",
                                 !.threads[t].exc = "process" ]
    /\ ConsumerFrame

\* self._stop.wait(self.poll_interval) returns: the interval is over or the
\* flag was set.
PollWait(t) ==
    /\ consumer.threads[t].pc = "wait"
    /\ consumer' = [ consumer EXCEPT !.threads[t].pc = "test", !.threads[t].queue = << >> ]
    /\ UNCHANGED faults
    /\ ConsumerFrame

\* A user puts the trigger tag on a dataset that does not carry it, on the
\* dataset itself or on one of its fields.
ApplyTrigger ==
    /\ service = "consumer"
    /\ \E d \in Datasets, on_field \in BOOLEAN :
         /\ ~Triggered(d)
         /\ consumer.applied[d] < MaxTriggers
         /\ consumer' = [ consumer EXCEPT
                            !.applied[d] = @ + 1,
                            !.run[d] = ~on_field,
                            !.frun[d] = on_field ]
    /\ UNCHANGED faults
    /\ ConsumerFrame

ConsumerThread ==
    /\ service = "consumer"
    /\ \E t \in Threads :
         \/ LoopTest(t)
         \/ PollList(t)
         \/ PollNext(t)
         \/ PollProcess(t)
         \/ PollWait(t)

NextConsumer ==
    \/ ConsumerStart
    \/ ConsumerStop
    \/ ConsumerJoin
    \/ ConsumerThread
    \/ ApplyTrigger

\* The consumer of the action service, its caller and the catalog's users.
SpecConsumer == InitConsumer /\ [][NextConsumer]_vars

\* -------------------------------------------- ui_ingestion_runner: GraphQL
\* The largest max_retries a client of the model is built with.
MaxRetries == 3

\* What one session.post(...) gives: a response with a status code, or a
\* requests exception raised before any response.
Response(status) == [ exc |-> "", status |-> status ]
Failure(exc) == [ exc |-> exc, status |-> 0 ]
PostOutcomes ==
    { Response(200), Response(302), Response(404), Response(503),
      Failure("ConnectionError"), Failure("Timeout") }

\* response.raise_for_status(): HTTPError for a 4xx or 5xx status.
raise_for_status(outcome) == outcome.exc = "" /\ 400 <= outcome.status /\ outcome.status < 600

\* A handler that retries after every HTTP error.
RetryAnyHttpError(outcome) ==
    \/ raise_for_status(outcome)
    \/ outcome.exc \in { "ConnectionError", "Timeout" }

\* The two except clauses: the attempt is retried after an HTTPError with a
\* 5xx status and after a ConnectionError or Timeout.
Retried(outcome) ==
    \/ raise_for_status(outcome) /\ 500 <= outcome.status /\ outcome.status < 600
    \/ outcome.exc \in { "ConnectionError", "Timeout" }

InitGql ==
    /\ CodecParked
    /\ Parked(CHOOSE t \in Tables : TRUE)
    /\ service = "graphql"
    /\ cfg = DefaultConfig
    /\ inColumns = << >>
    /\ callBudget = 0
    /\ manager = NoManager
    /\ fieldTags = NoFieldTags
    /\ racers = NoRacers
    /\ evalCall = NoEvalCall
    /\ clf = NoClassifier
    /\ detCall = NoDetect
    /\ verifyCall = NoVerify
    /\ consumer = NoConsumer
    /\ \E max_retries \in 0..MaxRetries :
         gql = [ max_retries |-> max_retries, attempt |-> 1, pc |-> "loop",
                 posts |-> << >>, result |-> "" ]

GqlFrame ==
    UNCHANGED << codecVars, service, cfg, inColumns, callBudget, manager, racers,
                 evalCall, clf, detCall, verifyCall, consumer, execVars, actVars,
                 rmVars >>

\* One pass of "for attempt in range(1, max_retries + 1)": the POST, then the
\* return of the response, the re-raise of the HTTPError, or the back-off
\* sleep before the next attempt.
GqlAttempt ==
    /\ service = "graphql"
    /\ gql.pc = "loop"
    /\ gql.attempt <= gql.max_retries
    /\ \E outcome \in PostOutcomes :
         LET posted == [ gql EXCEPT !.posts = Append(@, outcome) ]
         IN  IF Retried(outcome)
             THEN gql' = [ posted EXCEPT !.attempt = @ + 1 ]
             ELSE IF raise_for_status(outcome)
             THEN gql' = [ posted EXCEPT !.pc = "done", !.result = "HTTPError" ]
             ELSE gql' = [ posted EXCEPT !.pc = "done", !.result = "returned" ]
    /\ GqlFrame

\* The loop is over: raise RuntimeError("Exceeded maximum retries ...").
GqlExhausted ==
    /\ service = "graphql"
    /\ gql.pc = "loop"
    /\ gql.attempt > gql.max_retries
    /\ gql' = [ gql EXCEPT !.pc = "done", !.result = "RuntimeError" ]
    /\ GqlFrame

NextGql ==
    \/ GqlAttempt
    \/ GqlExhausted

\* One call of GraphQLClient._execute against a server that answers as it
\* likes.
SpecGql == InitGql /\ [][NextGql]_vars


\* -------------------------------------------------------- executor claims
Idle == pc = "idle"
PlanRows(q) == [ i \in 1..Len(q) |-> q[i].rows_to_update ]
Zeros(q) == \A i \in 1..Len(q) : q[i] = 0

\* C1: tokenize invoked twice with identical inputs: the second call reports
\* rows_to_update = 0 for every column and total_rows = 0, and changes no
\* cell.  Stated for two committed calls in a row that both returned.
C1_SecondCallFindsNothing ==
    ( /\ service = "executor"
      /\ Idle
      /\ prev.status = "returned" /\ ~prev.dry_run
      /\ last.status = "returned" /\ ~last.dry_run )
    => /\ last.total_rows = 0
       /\ Zeros(PlanRows(last.per_column))
       /\ db = pre

\* C2: a tokenize call that is not a dry run is all-or-nothing.  Nothing is
\* committed while the call runs its columns; an exception raised after the
\* connection opened leaves the transaction rolled back and the table as it
\* was, with no commit, and reaches the caller; a call that returns has
\* committed exactly once, after the plan of every column was made.
C2_AllOrNothing ==
    service = "executor" =>
      /\ commits <= 1
      /\ (~Idle /\ commits = 0) => db = pre
      /\ commits = 1 => /\ error = NoError
                        /\ ~args.dry_run
                        /\ Len(per_column) = Len(args.columns)
      /\ (pc \in { "close", "return" } /\ error # NoError)
            => (db = pre /\ tx = db /\ commits = 0)
      /\ (Idle /\ last.status = "raised")
            => (db = pre /\ last.commits = 0 /\ last.raised = last.error)
      /\ (Idle /\ last.status = "returned" /\ ~last.dry_run) => last.commits = 1

\* C2 witness: a committed-mode call has raised after its transaction had
\* already rewritten cells, and the table is as it was before the call.
C2_Witness ==
    /\ service = "executor"
    /\ Idle
    /\ last.status = "raised"
    /\ ~last.dry_run
    /\ last.dirty
    /\ Len(last.columns) = 2
    /\ db = pre

\* C3: a tokenize call with dry_run = True leaves every cell of the table as
\* it was before the call, while it runs and after it has returned or raised:
\* no UPDATE is issued inside its transaction and it never commits.
C3_DryRunChangesNothing ==
    service = "executor" =>
      /\ (~Idle /\ args.dry_run) => (db = pre /\ tx = pre /\ commits = 0)
      /\ (Idle /\ last.status \in { "returned", "raised" } /\ last.dry_run)
            => (db = pre /\ last.commits = 0)

\* C3 witness: a dry run that found rows to tokenize has returned and the
\* table is unchanged.
C3_Witness ==
    /\ service = "executor"
    /\ Idle
    /\ last.status = "returned"
    /\ last.dry_run
    /\ last.total_rows > 0
    /\ db = pre

\* C4: dry-run parity: the per-column rows_to_update and the total_rows of a
\* dry run equal those of the committed run that follows it on unchanged
\* data, for any column list.
C4_DryRunParity ==
    ( /\ service = "executor"
      /\ Idle
      /\ prev.status = "returned" /\ prev.dry_run
      /\ last.status = "returned" /\ ~last.dry_run )
    => /\ PlanRows(last.per_column) = PlanRows(prev.per_column)
       /\ last.total_rows = prev.total_rows

\* ----------------------------------------------------- coordinator claims
\* The exceptions that come out of the tokenization itself.
ExecutorErrors == { "KeyError", "OperationalError", "ValueError", "RuntimeError" }

\* The last call ran the executor and the executor raised.
ExecutorRaised ==
    /\ Idle
    /\ last.status \in { "returned", "raised" }
    /\ last.run > 0
    /\ last.error \in ExecutorErrors

HasEvent(i, status) == \E k \in 1..Len(runEvents) :
    runEvents[k].run = i /\ runEvents[k].status = status

\* TokenizeAction: the run of the last call is on record as failed, with the
\* error and no rows.
ActionFailureRecorded ==
    LET rec == runs[last.run]
    IN  /\ rec.status = "FAILURE"
        /\ rec.error = last.error
        /\ rec.rows_affected_total = << 0 >>
        /\ Zeros(rec.rows_per_field)
        /\ Len(rec.rows_per_field) = Len(rec.columns)
        /\ \E k \in 1..Len(runEvents) :
              /\ runEvents[k].run = last.run
              /\ runEvents[k].status = "COMPLETE"
              /\ runEvents[k].result = "FAILURE"

\* RunManager: the run of the last call is on record as failed, with the
\* error and no rows.
ManagerFailureRecorded ==
    /\ last_tokenization_run.run_id = last.run
    /\ last_tokenization_run.status = "FAILED"
    /\ last_tokenization_run.message = last.error
    /\ last_tokenization_run.rows_updated = 0
    /\ last_tokenization_run.rows_skipped = 0

RunRecorded ==
    /\ Idle
    /\ last.status \in { "returned", "raised" }
    /\ last.run > 0
    /\ IF service = "action" THEN runs[last.run].status # "unset"
       ELSE last_tokenization_run.run_id = last.run
RecordedFailed ==
    IF service = "action" THEN runs[last.run].status = "FAILURE"
    ELSE last_tokenization_run.status = "FAILED"
RecordedNoRows ==
    IF service = "action" THEN runs[last.run].rows_affected_total = << 0 >>
    ELSE last_tokenization_run.rows_updated = 0

\* C8: run status reflects the true outcome: a run recorded as failed has
\* left the table as it was before the run, and a run that changed the
\* table is recorded neither as failed nor with rows-affected 0.
C8_StatusReflectsOutcome ==
    RunRecorded =>
      /\ RecordedFailed => db = pre
      /\ db # pre => (~RecordedFailed /\ ~RecordedNoRows)

\* Run events of TokenizeAction, by run id.
EventsOf(i, status) ==
    { k \in 1..Len(runEvents) : runEvents[k].run = i /\ runEvents[k].status = status }
Started(i) == EventsOf(i, "STARTED") # { }
Terminal(i) == EventsOf(i, "COMPLETE") # { }
RunIds == 1..(MaxCalls + 1)

\* The safety half of the run lifecycle: one STARTED and at most one
\* completion per run id, the completion after the STARTED and with a
\* result, the record written once at the start and at most once more.
LifecycleSafe ==
    \A i \in 1..Len(runs) :
      /\ Cardinality(EventsOf(i, "STARTED")) <= 1
      /\ Cardinality(EventsOf(i, "COMPLETE")) <= 1
      /\ \A k \in EventsOf(i, "COMPLETE") :
            /\ runEvents[k].result \in { "SUCCESS", "FAILURE" }
            /\ \E j \in EventsOf(i, "STARTED") : j < k
      /\ runs[i].writes <= 2

\* A completed run's record and events stay as they are.
FrozenOnceTerminal ==
    \A i \in 1..Len(runs) :
      Terminal(i) => /\ runs'[i] = runs[i]
                     /\ EventsOf(i, "COMPLETE")' = EventsOf(i, "COMPLETE")
                     /\ EventsOf(i, "STARTED")' = EventsOf(i, "STARTED")

\* act() has left its run: the run has its STARTED event and either its
\* completion, or the catalog refused the completion and act raised that.
LeftRun ==
    (Idle /\ last.run > 0) =>
       /\ Started(last.run)
       /\ Terminal(last.run) \/ last.raised = "CatalogError"

\* act() is inside a run exactly when the last run started has no completion
\* yet and was not left.
InRun == ~Idle
RunOpen ==
    InRun => /\ CurrentRun > 0
             /\ Started(CurrentRun)
             /\ ~Terminal(CurrentRun)

MutationIssued == ~Idle /\ (tx # pre \/ db # pre)

Handed == service = "action" /\ calls' = calls + 1

\* The event starts a run over more columns than max_columns allows.
OverLimit(ev) ==
    /\ SkipReason(ev) = ""
    /\ cfg.max_columns # << >>
    /\ Len(_resolve_columns(ev.field_path)) > cfg.max_columns[1]

\* What a call that creates no run leaves alone: the run records and run
\* events, the connection, the table, and the executor's arguments.
NoRunCreated ==
    /\ pc' = "idle"
    /\ UNCHANGED << runs, runEvents, ensured_metadata, conn, session, db, tx,
                    args, commits >>

\* C11: when max_columns is configured and the event resolves to more
\* columns than that, act() raises RuntimeError before any run record is
\* opened and before any connection or statement: no run, not even over a
\* subset of the columns, begins.
C11_LimitBeforeRun ==
    [][ (Handed /\ OverLimit(event'))
          => /\ last'.status = "raised"
             /\ last'.raised = "RuntimeError"
             /\ last'.run = 0
             /\ NoRunCreated ]_vars

\* C11 witness: max_columns = 1, a dataset event over two PII fields: act()
\* has raised and the catalog holds no run.
C11_Witness ==
    /\ service = "action"
    /\ Idle
    /\ calls = 1
    /\ OverLimit(event)
    /\ cfg.max_columns = << 1 >>
    /\ Len(inColumns) = 2
    /\ last.raised = "RuntimeError"
    /\ runs = << >>
    /\ runEvents = << >>
    /\ conn = "none"

\* C12: a missing tenant credential creates no run: the catalog holds no run
\* record and no run event of a run for a tenant without a configured
\* credential.
C12_NoRunWithoutCredential ==
    service = "action" =>
      /\ \A i \in 1..Len(runs) : runs[i].tenant_id \in cfg.tenants
      /\ \A k \in 1..Len(runEvents) : runs[runEvents[k].run].tenant_id \in cfg.tenants

\* The event fails resolution: not a metadata-change-log tag update, an
\* unsupported entity type, no entity urn, a dataset name without schema and
\* table, or a platform outside dataset_platforms.
ResolutionFailure(ev) ==
    \/ ev.event_type # "METADATA_CHANGE_LOG_EVENT"
    \/ ev.aspectName # "globalTags"
    \/ ev.entityType \notin { "dataset", "schemaField" }
    \/ ~ev.hasUrn
    \/ ev.nameParts < 2
    \/ ev.platform \notin dataset_platforms

\* C13: for an event that fails resolution act() returns without raising,
\* emits no run record and no run event, and opens no connection.
C13_ResolutionFailureSkips ==
    [][ (Handed /\ ResolutionFailure(event'))
          => /\ last'.status = "skipped"
             /\ last'.raised = NoError
             /\ last'.run = 0
             /\ NoRunCreated
             /\ UNCHANGED faults ]_vars

\* C13 witness: act() has skipped an event on a dataset of another platform
\* and the catalog holds no run.
C13_Witness ==
    /\ service = "action"
    /\ Idle
    /\ calls = 1
    /\ event.platform = "mysql"
    /\ ResolutionFailure(event)
    /\ last.status = "skipped"
    /\ runs = << >>
    /\ runEvents = << >>
    /\ conn = "none"

\* --------------------------------------------------- finalisation claims
\* The last call was a trigger on the dataset (no explicit column scope)
\* while no field of the dataset carried a PII tag, and the catalog accepted
\* every write.
NoPiiTrigger ==
    /\ Idle
    /\ calls > 0
    /\ inColumns = << >>
    /\ faults = 0
    /\ IF service = "action"
       THEN SkipReason(event) = "" /\ event.entityType = "dataset"
       ELSE service = "runmanager" /\ last.run = calls

\* The catalog's tags are what they were but for the trigger tag.
OnlyTriggerCleared ==
    /\ tags = { }
    /\ fieldTags \in { [ f \in FieldPaths |-> g[f] \ { RUN_TAG_URN } ] : g \in FieldTagStates }
    /\ { o \in tagOps.issued : o.op = "add" } = { }

\* C14: a trigger on a dataset with no PII-tagged columns and no explicit
\* column scope produces a run recorded as succeeded with rows-affected 0,
\* changes no cell of the table, and changes nothing in the catalog but the
\* trigger tag, which it clears.
C14_NoPiiColumnsNoOp ==
    NoPiiTrigger =>
      /\ db = pre
      /\ IF service = "action"
         THEN /\ Len(runs) = calls
              /\ runs[calls].status = "SUCCESS"
              /\ runs[calls].rows_affected_total = << 0 >>
         ELSE /\ last_tokenization_run.run_id = calls
              /\ last_tokenization_run.status = "SUCCESS"
              /\ last_tokenization_run.rows_updated = 0
              /\ OnlyTriggerCleared

\* process() has returned from a run it recorded as SUCCESS and finalised.
Finalised ==
    /\ service = "runmanager"
    /\ Idle
    /\ last.status = "returned"
    /\ last.raised = NoError
    /\ last.error = NoError
    /\ last.run = calls
    /\ calls > 0

\* The catalog state the finalisation is to leave: the dataset carries the
\* done tag and not the trigger tag, no field carries the trigger tag, and
\* the field of every tokenized column carries the tokenized tag.
FinalCatalog ==
    /\ DONE_TAG_URN \in tags
    /\ RUN_TAG_URN \notin tags
    /\ \A f \in DatasetFields :
          /\ RUN_TAG_URN \notin fieldTags[f]
          /\ _field_path_to_column(f) \in Range(columns)
                => FIELD_TOKENIZED_TAG \in fieldTags[f]

\* Writing the finalisation's tags once more changes nothing.
FinalisationRepeats ==
    LET again == _finalise_success(columns, fieldTags)
    IN  /\ Tagged(tags, << >>, again) = tags
        /\ \A f \in FieldPaths : Tagged(fieldTags[f], f, again) = fieldTags[f]

C16_SecondRunNoOp ==
    ( /\ service = "runmanager"
      /\ Idle
      /\ prev.status = "returned" /\ prev.error = NoError
      /\ prev.total_rows = NRows
      /\ last.status = "returned" /\ last.error = NoError
      /\ last.columns = prev.columns )
    => /\ last.total_rows = 0
       /\ db = pre
       /\ last_tokenization_run.run_id = last.run
             => (last_tokenization_run.rows_updated = 0
                 /\ last_tokenization_run.rows_skipped = 0)

\* ------------------------------------------------ column type, connections
\* The declared type of the column is not a text type.
NonTextual(c) ==
    /\ c \in DOMAIN ColumnInfo
    /\ ColumnInfo[c][1] \notin _TEXTUAL_DATA_TYPES
    /\ ColumnInfo[c][2] \notin _TEXTUAL_UDT_NAMES

\* C17: for a targeted column of a non-textual type PostgresExecutor.tokenize
\* issues no count and no UPDATE, records a plan with rows_to_update = 0
\* whatever the column holds, never changes a cell of it, and goes on with
\* the remaining columns: a call that returns has a plan for every column.
C17_NonTextualSkipped ==
    service = "executor" =>
      /\ pc \in { "count", "update" } => ~NonTextual(CurrentColumn)
      /\ \A i \in 1..Len(per_column) :
            /\ per_column[i].field_path = args.columns[i]
            /\ NonTextual(_field_path_to_column(per_column[i].field_path))
                  => per_column[i].rows_to_update = 0
      /\ \A c \in DOMAIN ColumnInfo : NonTextual(c) => (tx[c] = pre[c] /\ db[c] = pre[c])
      /\ (Idle /\ last.status = "returned")
            => /\ Len(last.per_column) = Len(last.columns)
               /\ \A i \in 1..Len(last.columns) :
                     NonTextual(_field_path_to_column(last.columns[i]))
                        => last.per_column[i].rows_to_update = 0

\* C17 witness: a committed call over the integer column id and then the
\* text column email has returned: 0 rows for id, rows rewritten for email.
C17_Witness ==
    /\ service = "executor"
    /\ Idle
    /\ last.status = "returned"
    /\ ~last.dry_run
    /\ last.columns = << << "id" >>, << "email" >> >>
    /\ last.per_column[1].rows_to_update = 0
    /\ last.per_column[1].data_type = "integer"
    /\ last.per_column[2].rows_to_update > 0
    /\ db.id = pre.id
    /\ db.email # pre.email

\* C19: every connection acquired for a run is closed on every exit path:
\* once the with block of the connection is left, and when the run has
\* finished, the run holds no open connection.
C19_ConnectionsReleased ==
    pc \in { "return", "idle", "rm_record", "rm_finalise", "rm_except" }
       => conn # "open"

\* The places of a run where a statement is executing or about to execute.
StatementPcs == { "setup", "lookup", "count", "update", "finish", "except" }

Uncommitted == \A p \in Runs : racers[p].commits = 0

C18_NoCrossRunLocking ==
    service = "race" =>
      \A p \in Runs :
        /\ racers[p].pc = "count" => ENABLED RaceCount(p)
        /\ ( /\ racers[p].pc = "update"
             /\ racers[p].locked = { }
             /\ Uncommitted )
           => /\ racers[p].rows_to_update
                   = _count_rows_to_tokenize(db, RaceColumn(p), regex_token_pattern)
              /\ racers[p].rows_to_update > 0

\* Both runs hold a non-zero count of the same column, one of them has its
\* UPDATE behind it, and neither has committed.
C18_Witness ==
    /\ service = "race"
    /\ Uncommitted
    /\ \E p \in Runs :
         /\ racers[p].pc = "update"
         /\ racers[p].rows_to_update > 0
         /\ racers[Other(p)].locked # { }
         /\ \E plan \in Range(racers[Other(p)].per_column) :
              /\ plan.rows_to_update > 0
              /\ _field_path_to_column(plan.field_path) = RaceColumn(p)

\* What a status query for run id finds in the catalog of RunManager: the
\* dataset property last_tokenization_run when it is about that run, and
\* nothing otherwise.
StatusQuery(id) ==
    IF last_tokenization_run.run_id = id THEN last_tokenization_run ELSE NoRun

\* C21: once the status record of a run id is terminal, every later query
\* for that run id gives the same status, rows affected and error, whatever
\* other runs do on the dataset afterwards.
C21_StablyPollable ==
    [][ /\ \A id \in 1..MaxCalls :
             StatusQuery(id).status \in { "SUCCESS", "FAILED" }
                => StatusQuery(id)' = StatusQuery(id)
        /\ FrozenOnceTerminal ]_vars

\* C22: a dry run of tokenize executes the same per-column steps as a
\* committed run and differs only in the final rollback: at the update step
\* the UPDATE statement is sent and its effect is visible in the open
\* transaction, and the step can raise in a dry run whenever it can raise in
\* a committed run.
C22_DryRunSameSteps ==
    [][ (service = "executor" /\ pc = "update") =>
          /\ pc' # "except" =>
               tx' = UpdateIgnoringDryRun(tx, CurrentColumn, regex_token_pattern,
                                          args.use_base64, args.dry_run).table
          /\ faults < MaxFaults => ENABLED (ExecuteUpdate /\ pc' = "except") ]_vars

\* ------------------------------------------------------- round trip (C29)
\* The reader's side of the reversible encoding: RFC 4648 base64 decoding
\* of the token body, then the bytes read as ASCII text.
AsciiChars == Range(Upper) \cup Range(Lower) \cup Range(Digits)
                \cup { "\n", " ", "+", "-", ".", "/", "=", "@", "_" }
Chr(n) ==
    IF n \in 65..90 THEN Upper[n - 64]
    ELSE IF n \in 97..122 THEN Lower[n - 96]
    ELSE IF n \in 48..57 THEN Digits[n - 47]
    ELSE IF \E c \in AsciiChars : Ord(c) = n
         THEN CHOOSE c \in AsciiChars : Ord(c) = n
         ELSE "?"

B64Value(c) == IF c \in Range(B64Alphabet) THEN IndexOf(c, B64Alphabet) - 1 ELSE 0

RECURSIVE B64Decode(_)
B64Decode(s) ==
    IF Len(s) < 4 THEN << >>
    ELSE LET n == B64Value(s[1]) * 262144 + B64Value(s[2]) * 4096
                    + B64Value(s[3]) * 64 + B64Value(s[4])
             bytes == << n \div 65536, (n \div 256) % 256, n % 256 >>
             kept == IF s[3] = "=" THEN 1 ELSE IF s[4] = "=" THEN 2 ELSE 3
         IN  SubSeq(bytes, 1, kept) \o B64Decode(SubSeq(s, 5, Len(s)))

DecodeToken(token) ==
    LET bytes == B64Decode(Body(token))
    IN  [ i \in 1..Len(bytes) |-> Chr(bytes[i]) ]

\* C29: with the reversible (base64) encoding, decoding the text between
\* tok_ and _poc of generate_token(x) gives x back, for every text x; the
\* same holds for the token the SQL expression builds with base64.
C29_RoundTrip ==
    ( /\ service = "codec"
      /\ Len(codecOps) >= 1
      /\ LastOp = "generate_token" )
    => /\ DecodeToken(CodecCurrent) = PrevValue
       /\ DecodeToken(_make_token_expression(PrevValue, TRUE)) = PrevValue

\* generate_token has been applied to the empty text, to a text of one and
\* of two characters, and to a token (more than one base64 group).
C29_Witness ==
    /\ service = "codec"
    /\ Len(codecOps) = 3
    /\ \A i \in 1..3 : codecOps[i] = "generate_token"
    /\ Len(codecTrail[1]) = 2
    /\ DecodeToken(codecTrail[4]) = codecTrail[3]
    /\ Len(codecTrail[3]) > Len(codecTrail[2])

\* ------------------------------------------------------- trigger claim
\* The event's tag sets say the trigger tag was added by this change.
TagAdded(ev) == ev.new_has_tag /\ ~ev.prev_has_tag

\* C30: act() starts a run only on a tag addition.  An event whose new tag
\* set lacks the trigger tag, or whose previous tag set already holds it, is
\* skipped: no run record, no run event, no connection, the table untouched;
\* and whenever act() opens a run or goes on to the executor, the event was
\* a tag addition.
C30_RunOnlyOnTagAddition ==
    [][ Handed =>
          /\ ~TagAdded(event') => /\ last'.status = "skipped"
                                  /\ NoRunCreated
                                  /\ pc' = "idle"
                                  /\ UNCHANGED << conn, db, tx, faults >>
          /\ (Len(runs') > Len(runs) \/ pc' = "connect") => TagAdded(event') ]_vars

\* C30 witness: act() was handed an event whose previous tag set already
\* held the trigger tag (on a dataset that resolves, with PII columns) and
\* skipped it.
C30_Witness ==
    /\ service = "action"
    /\ Idle
    /\ calls = 1
    /\ event.new_has_tag /\ event.prev_has_tag
    /\ ~ResolutionFailure(event)
    /\ _resolve_columns(event.field_path) # << >>
    /\ last.status = "skipped"
    /\ runs = << >>
    /\ runEvents = << >>
    /\ conn = "none"

\* ---------------------------------------------------- classifier claims
\* What _evaluate hands each rule, and what each rule answers.
CallSamples == Usable(evalCall.samples)
RuleAnswer(i) == evaluate(evalCall.rules[i], evalCall.column_name, CallSamples)
MatchingRules == { i \in 1..Len(evalCall.rules) : is_match(RuleAnswer(i)) }

\* C26: _evaluate returns the matching evaluation of highest confidence, the
\* earliest rule in load order among those that tie for it, and nothing when
\* no rule matches.
C26_BestMatchFirstOnTies ==
    ( /\ service = "rules"
      /\ "_evaluate" \in evalCall.ops
      /\ Len(CallSamples) >= evalCall.min_value_samples )
    => IF MatchingRules = { }
       THEN evalCall.best = NoEvaluation
       ELSE \E i \in MatchingRules :
              /\ evalCall.best = RuleAnswer(i)
              /\ \A j \in MatchingRules :
                   /\ RuleAnswer(j).confidence <= RuleAnswer(i).confidence
                   /\ RuleAnswer(j).confidence = RuleAnswer(i).confidence => i <= j

\* C26 witness: two rules match the column with the same confidence and the
\* first one was returned.
C26_Witness ==
    /\ service = "rules"
    /\ "_evaluate" \in evalCall.ops
    /\ MatchingRules = { 1, 2 }
    /\ RuleAnswer(1).confidence = RuleAnswer(2).confidence
    /\ evalCall.best = RuleAnswer(1)

\* The confidence of the written algorithm: name weight on a name match;
\* without value pattern and with a name match at least min-confidence; with
\* value pattern and the ratio reached, value weight added; clamped to 0..1.
SpecifiedConfidence(rule, name_match, matches, total) ==
    LET named == IF name_match THEN rule.name_weight ELSE 0
        reached == IF total > 0 THEN matches * 10 >= rule.value_match_ratio * total
                                ELSE 0 >= rule.value_match_ratio
    IN  ClampBoth(IF rule.value_pattern = NoPattern /\ name_match
                  THEN Max(named, rule.min_confidence)
                  ELSE IF rule.value_pattern # NoPattern /\ reached
                       THEN named + rule.value_weight
                       ELSE named)

\* C27: Rule.evaluate follows the written algorithm: name-match iff a name
\* pattern matches the lower-cased name, the confidence is the clamped score
\* of the algorithm, and a rule without value pattern whose name pattern
\* matches is always a match.
C27_EvaluateAsSpecified ==
    ( /\ service = "rules"
      /\ "evaluate" \in evalCall.ops )
    => LET rule == evalCall.rules[1]
           e == evalCall.evaluation
       IN  /\ e.name_match = (\E pattern \in rule.name_patterns :
                                SearchName(pattern, LowerCase(evalCall.column_name)))
           /\ e.confidence = SpecifiedConfidence(rule, e.name_match,
                                                 e.value_ratio[1], e.evaluated_values)
           /\ (rule.value_pattern = NoPattern /\ e.name_match) => is_match(e)

\* C28: for every rule the loader accepts, the evaluation has its confidence
\* and its value ratio within 0..1.
C28_EvaluationInUnitRange ==
    ( /\ service = "rules"
      /\ "evaluate" \in evalCall.ops )
    => LET e == evalCall.evaluation
       IN  /\ Accepted(e.rule)
           /\ 0 <= e.confidence /\ e.confidence <= 10
           /\ 0 <= e.value_ratio[1] /\ e.value_ratio[1] <= e.value_ratio[2]

\* C23: a failure while sampling or evaluating one column does not abort
\* the run: run() never ends by raising what the sampling of a column
\* raised; only catalog-write failures reach the caller from the loop.
C23_ColumnFailureDoesNotAbort ==
    ( /\ service = "classifier"
      /\ clf.pc = "done"
      /\ clf.failed_at \in { "sample", "emit" } )
    => /\ clf.failed_at = "emit"
       /\ clf.raised = "CatalogError"

\* The field of the column in hand carries the tag about to be written.
AlreadyTagged ==
    /\ service = "classifier"
    /\ clf.pc = "emit"
    /\ clf.evaluation.rule.tag \in clf.tags[clf.idx]

\* C24: a tag write for a field that already carries the tag emits nothing
\* and is no error: add_field_tag returns was_emitted = False and the tags
\* of every field are what they were.
C24_TagWriteIdempotent ==
    [][ AlreadyTagged =>
          /\ clf'.pc # "exit"
          /\ clf'.matches[Len(clf'.matches)].was_emitted = FALSE
          /\ clf'.tags = clf.tags ]_vars

\* The columns the loop has gone past in the running or last call.
Passed == { i \in 1..Len(clf.columns) : i < clf.idx }
UnderSampled(i) ==
    Len(Usable(sample_values(clf.columns[i], clf.sample_limit))) < clf.min_value_samples

\* C25: a column with fewer than min_value_samples usable sampled values is
\* skipped: no evaluation of it is kept as a match, no tag write is asked
\* for it, and its tags stay as they were, whatever its name and values.
C25_UnderSampledSkipped ==
    service = "classifier" =>
      \A i \in 1..Len(clf.columns) :
        UnderSampled(i) =>
          /\ i \notin clf.asked
          /\ \A k \in 1..Len(clf.matches) : clf.matches[k].column # i
          /\ clf.tags[i] = clf.tags0[i]
          /\ (clf.pc = "emit" => clf.idx # i)

\* C25 witness: a run has ended normally after passing a column that has a
\* usable value and a name that a loaded rule without value pattern
\* matches, but fewer usable values than min_value_samples; another column
\* of the same run was tagged.
C25_Witness ==
    /\ service = "classifier"
    /\ clf.pc = "done"
    /\ clf.raised = NoError
    /\ clf.idx > Len(clf.columns)
    /\ clf.matches # << >>
    /\ \E i \in 1..Len(clf.columns) :
         /\ UnderSampled(i)
         /\ Usable(sample_values(clf.columns[i], clf.sample_limit)) # << >>
         /\ \E r \in 1..Len(clf.rules) :
              /\ clf.rules[r].value_pattern = NoPattern
              /\ is_match(evaluate(clf.rules[r], clf.columns[i].name, clf.columns[i].values))
         /\ i \notin clf.asked

\* ---------------------------------------------------------------------
\* The fields of the detector's dataset, and what the explicit list names.
DetFieldOf(i) == detCall.fields[i]
DetColumn(i) == _field_path_to_column(DetFieldOf(i).field_path)
DetListed(i) ==
    \E n \in 1..Len(detCall.explicit_fields) :
       \/ detCall.explicit_fields[n] = DetFieldOf(i).field_path
       \/ detCall.explicit_fields[n] = << DetColumn(i) >>
DetTagged(i) == DetFieldOf(i).tags \cap { PII_EMAIL_TAG } # { }

\* C31: PiiDetector.detect resolves the target columns by strict precedence.
\* A non-empty explicit field list yields exactly the columns of the listed
\* fields that exist in the dataset, whatever the tags and the names are;
\* without one, if any field carries a PII tag, exactly the PII-tagged
\* columns; only when no field is PII-tagged, the name/sample heuristic.
C31_DetectPrecedence ==
    (service = "detector" /\ detCall.done) =>
        LET idx == 1..Len(detCall.fields)
        IN  IF detCall.explicit_fields # << >>
            THEN detCall.columns = { DetColumn(i) : i \in { k \in idx : DetListed(k) } }
            ELSE IF \E i \in idx : DetTagged(i)
            THEN detCall.columns = { DetColumn(i) : i \in { k \in idx : DetTagged(k) } }
            ELSE detCall.columns = _heuristic_detection(detCall.fields, detCall.samples)

\* An explicit list naming an untagged field of a dataset whose other field
\* is PII-tagged: the listed column alone is returned.
C31_Witness ==
    /\ service = "detector"
    /\ detCall.done
    /\ detCall.explicit_fields = << << "phone" >> >>
    /\ \E i, j \in 1..Len(detCall.fields) :
          /\ DetTagged(i) /\ DetColumn(i) = "email"
          /\ ~DetTagged(j) /\ DetColumn(j) = "phone"
    /\ detCall.columns = { "phone" }

\* ---------------------------------------------------------------------
\* The states that end a run: the successful ones and FAILED / FAILURE.
SuccessfulStates == { "SUCCESS", "COMPLETED", "SUCCESSFUL" }
FailedStates == { "FAILED", "FAILURE" }
Polled(i) == UpperState(verifyCall.states[i])

Plaintexts == { PlainValue(r) : r \in Rows } \cup { << >> }
TokenOutputs == { _make_token_expression(v, b) : v \in Plaintexts, b \in BOOLEAN }

\* C33: no double tokenization under repeated or concurrent runs on one
\* table.  No cell ever holds a token computed from an already-tokenized
\* value: a committed cell that holds the token of a plaintext is never
\* rewritten.
C33_NoDoubleTokenization ==
    [][ \A c \in { "email", "phone" }, r \in Rows :
          db[c][r] \in TokenOutputs => db'[c][r] = db[c][r] ]_vars

\* ---------------------------------------------------------------------
\* A targeted column still holds a non-null value that is not a token.
Untokenized(c) == \E r \in Rows : db[c][r] # None /\ ~is_token(db[c][r])

\* C34: completeness before marking done.  Whenever RunManager has recorded
\* a run as SUCCESS and marked the dataset done, no targeted column of the
\* table still holds a non-null value that is not a token, whatever the
\* number of rows is relative to the batch limit.
C34_CompleteBeforeDone ==
    ( /\ Finalised
      /\ last_tokenization_run.status = "SUCCESS"
      /\ DONE_TAG_URN \in tags )
    => \A i \in 1..Len(columns) : ~Untokenized(columns[i])

\* ---------------------------------------------------------------------
RECURSIVE SumSeq(_)
SumSeq(q) == IF q = << >> THEN 0 ELSE Head(q) + SumSeq(Tail(q))

\* The cells of a column the last call changed.
CellsChanged(c) == Cardinality({ r \in Rows : db[c][r] # pre[c][r] })
ExecReturned == service = "executor" /\ Idle /\ last.status = "returned"
OnePlanPerColumn ==
    /\ Len(last.per_column) = Len(last.columns)
    /\ \A i \in 1..Len(last.columns) : last.per_column[i].field_path = last.columns[i]
TotalIsSum == last.total_rows = SumSeq(PlanRows(last.per_column))

\* C35 as stated: every TokenizationOutcome has total_rows equal to the sum of
\* rows_to_update over per_column and exactly one plan per input column in
\* input order, and outside a dry run each rows_to_update equals the number
\* of cells of that column the call changed.
C35_OutcomeAccounts ==
    ExecReturned =>
        /\ TotalIsSum
        /\ OnePlanPerColumn
        /\ ~last.dry_run =>
              \A i \in 1..Len(last.per_column) :
                 last.per_column[i].rows_to_update
                    = CellsChanged(_field_path_to_column(last.per_column[i].field_path))

\* ---------------------------------------------------------------------
\* C36: after a run recorded as SUCCESS the polling consumer does not process
\* the same dataset again in later polls unless the trigger tag is applied
\* again: the successful runs of a dataset never outnumber the applications
\* of the trigger tag to it.
C36_OneSuccessPerTrigger ==
    service = "consumer" =>
        \A d \in Datasets : consumer.successes[d] <= consumer.applied[d]

\* C37: within one poll a failing run for one dataset does not keep the
\* remaining trigger-tagged datasets of that poll from being processed:
\* RunManager.process never propagates an exception to the poll loop, so no
\* poll is ended by process() while a trigger-tagged dataset is still to be
\* visited.
C37_ProcessNeverRaises ==
    service = "consumer" =>
        \A t \in Threads :
           LET th == consumer.threads[t]
           IN  ~( /\ th.exc = "process"
                  /\ \E i \in 1..Len(th.queue) : Triggered(th.queue[i]) )

\* C38: after any sequence of start() and stop() calls, a stop() whose join
\* timed out during a run included, at most one polling thread is alive, and
\* whenever the most recent call was start() there is a live polling thread
\* and the stop flag is clear.
C38_StartedMeansPolling ==
    service = "consumer" =>
        /\ Cardinality({ t \in Threads : is_alive(t) }) <= 1
        /\ (consumer.last_call = "start" /\ consumer.main = "idle") =>
              /\ \E t \in Threads : is_alive(t)
              /\ ~consumer._stop

\* ---------------------------------------------------------------------
\* C39: add_field_tag never removes a tag.  After any call the tag set of the
\* field is a superset of the tag set it had before the call, also when the
\* fetch of the existing tags fails.
C39_AddFieldTagKeepsTags ==
    [][ (service = "classifier" /\ clf.pc = "emit") =>
          \A i \in 1..Len(clf.columns) : clf.tags[i] \subseteq clf'.tags[i] ]_vars

\* ---------------------------------------------------------------------
\* The POSTs of the call so far, and the errors the claim lets it retry.
Posts == gql.posts
RetryableError(outcome) ==
    \/ outcome.exc = "" /\ outcome.status \in 500..599
    \/ outcome.exc \in { "ConnectionError", "Timeout" }
Successful(outcome) == outcome.exc = "" /\ outcome.status < 400

\* C40: GraphQLClient._execute ends after at most max_retries POST attempts.
\* It returns the first successful response, makes a further attempt only
\* after a 5xx HTTP error, a connection error or a timeout, raises at once on
\* any other HTTP error, and raises RuntimeError once max_retries attempts
\* have all failed with retryable errors.
C40_BoundedRetries ==
    service = "graphql" =>
        /\ Len(Posts) <= gql.max_retries
        /\ \A i \in 1..(Len(Posts) - 1) : RetryableError(Posts[i])
        /\ (Len(Posts) > 0 /\ ~RetryableError(Posts[Len(Posts)])) =>
              /\ gql.pc = "done"
              /\ gql.result = IF Successful(Posts[Len(Posts)]) THEN "returned"
                                                               ELSE "HTTPError"
        /\ gql.result = "RuntimeError" =>
              /\ Len(Posts) = gql.max_retries
              /\ \A i \in 1..Len(Posts) : RetryableError(Posts[i])
        /\ (Len(Posts) = gql.max_retries
              /\ \A i \in 1..Len(Posts) : RetryableError(Posts[i])) =>
              gql.result \in { "", "RuntimeError" } /\ ~ENABLED GqlAttempt

\* Two retryable failures, then an HTTP 404 at the third attempt: raised at
\* once.
C40_Witness ==
    /\ service = "graphql"
    /\ gql.pc = "done"
    /\ gql.result = "HTTPError"
    /\ Len(Posts) = 3
    /\ Posts[1].status = 503
    /\ Posts[2].exc = "Timeout"
    /\ Posts[3].status = 404

=============================================================================
